---- MODULE Spec2Model ----
(***************************************************************************)
(* Bitcoin retirement calculator: the Power Law price model, the Smart     *)
(* Withdrawal Strategy, the Bear Market Test and the 50-year withdrawal    *)
(* simulation of the chart component.                                      *)
(*                                                                         *)
(* JavaScript numbers are modelled as exact rationals extended with        *)
(* +Infinity, -Infinity and NaN (what x/0 and 0/0 produce); rounding of    *)
(* IEEE doubles is not modelled.  TLC's integers are 32 bits wide, so      *)
(* numerators and denominators are arbitrary-precision naturals held as    *)
(* little-endian sequences of limbs.                                       *)
(***************************************************************************)
EXTENDS Integers, Sequences, FiniteSets, TLC

(***************************************************************************)
(* Arbitrary-precision naturals.                                           *)
(***************************************************************************)
Base == 100 * 100

IntMax(a, b) == IF a >= b THEN a ELSE b

\* The recursions below halve their range, so that their depth stays
\* logarithmic in the number of limbs.

\* the highest index in lo..hi of a limb that is not 0; 0 if there is none
RECURSIVE BTop(_, _, _)
BTop(v, lo, hi) ==
  IF lo = hi THEN (IF v[lo] # 0 THEN lo ELSE 0)
  ELSE IF BTop(v, (lo + hi) \div 2 + 1, hi) # 0
  THEN BTop(v, (lo + hi) \div 2 + 1, hi)
  ELSE BTop(v, lo, (lo + hi) \div 2)

\* the limbs without the zeros at the top
BStrip(a) == IF Len(a) = 0 THEN <<>> ELSE SubSeq(a, 1, BTop(a, 1, Len(a)))

RECURSIVE BFromInt(_)
BFromInt(i) == IF i = 0 THEN <<>> ELSE <<i % Base>> \o BFromInt(i \div Base)

\* the limbs of the natural number SUM v[i] * Base^(i-1), for integers v[i]
\* of any size and sign: every round moves each carry or borrow one limb up
RECURSIVE BNorm(_)
BNorm(v) ==
  IF \A i \in 1..Len(v) : v[i] >= 0 /\ v[i] < Base
  THEN BStrip(v)
  ELSE BNorm([i \in 1..(Len(v) + 1) |->
                (IF i <= Len(v) THEN v[i] % Base ELSE 0)
                + (IF i > 1 THEN v[i - 1] \div Base ELSE 0)])

BLimb(a, i) == IF i >= 1 /\ i <= Len(a) THEN a[i] ELSE 0

\* a + b * Base^k
BAddShifted(a, b, k) ==
  BNorm([i \in 1..IntMax(Len(a), Len(b) + k) |-> BLimb(a, i) + BLimb(b, i - k)])

BAdd(a, b) == BAddShifted(a, b, 0)

\* a - b for a >= b
BSub(a, b) == BNorm([i \in 1..IntMax(Len(a), Len(b)) |-> BLimb(a, i) - BLimb(b, i)])

\* -1, 0 or 1 as the limbs lo..hi of a are below, equal to or above those of
\* b, the higher limbs deciding first
RECURSIVE BCmpRange(_, _, _, _)
BCmpRange(a, b, lo, hi) ==
  IF lo = hi
  THEN (IF a[lo] < b[lo] THEN -1 ELSE IF a[lo] > b[lo] THEN 1 ELSE 0)
  ELSE IF BCmpRange(a, b, (lo + hi) \div 2 + 1, hi) # 0
  THEN BCmpRange(a, b, (lo + hi) \div 2 + 1, hi)
  ELSE BCmpRange(a, b, lo, (lo + hi) \div 2)

BCmp(a, b) ==
  IF Len(a) < Len(b) THEN -1
  ELSE IF Len(a) > Len(b) THEN 1
  ELSE IF Len(a) = 0 THEN 0
  ELSE BCmpRange(a, b, 1, Len(a))

\* a * b for b of at least one limb
RECURSIVE BMulBy(_, _)
BMulBy(a, b) ==
  IF Len(b) = 1
  THEN BNorm([i \in 1..Len(a) |-> a[i] * b[1]])
  ELSE BAddShifted(BMulBy(a, SubSeq(b, 1, Len(b) \div 2)),
                   BMulBy(a, SubSeq(b, Len(b) \div 2 + 1, Len(b))),
                   Len(b) \div 2)

BMul(a, b) ==
  IF a = <<>> \/ b = <<>> THEN <<>>
  ELSE IF b = <<1>> THEN a
  ELSE IF a = <<1>> THEN b
  ELSE IF Len(b) <= Len(a) THEN BMulBy(a, b) ELSE BMulBy(b, a)

(***************************************************************************)
(* JavaScript numbers: sgn * num / den with den > 0 for a finite value;    *)
(* den = 0 encodes the non-finite values: +-Infinity (num = 1, sgn = +-1)  *)
(* and NaN (num = 0).                                                      *)
(***************************************************************************)
NaN == [sgn |-> 0, num |-> <<>>, den |-> <<>>]
Infinity == [sgn |-> 1, num |-> <<1>>, den |-> <<>>]
NegInfinity == [sgn |-> -1, num |-> <<1>>, den |-> <<>>]

IsNaN(x) == x.den = <<>> /\ x.num = <<>>
IsInf(x) == x.den = <<>> /\ x.num # <<>>
IsFinite(x) == x.den # <<>>

Abs(i) == IF i < 0 THEN -i ELSE i
Sign(i) == IF i < 0 THEN -1 ELSE IF i > 0 THEN 1 ELSE 0

RECURSIVE Gcd(_, _)
Gcd(a, b) == IF b = 0 THEN a ELSE Gcd(b, a % b)

\* the number a / b of two TLA+ integers, b > 0, in lowest terms
Q(a, b) ==
  LET g == Gcd(Abs(a), b)
  IN  [sgn |-> Sign(a), num |-> BFromInt(Abs(a) \div g), den |-> BFromInt(b \div g)]

N(i) == Q(i, 1)

Mk(s, n, d) == IF n = <<>> THEN [sgn |-> 0, num |-> <<>>, den |-> <<1>>]
               ELSE [sgn |-> s, num |-> n, den |-> d]

Neg(x) == [x EXCEPT !.sgn = -x.sgn]

\* x + y
Add(x, y) ==
  IF IsNaN(x) \/ IsNaN(y) THEN NaN
  ELSE IF IsInf(x) THEN (IF IsInf(y) /\ y.sgn # x.sgn THEN NaN ELSE x)
  ELSE IF IsInf(y) THEN y
  ELSE IF x.sgn = 0 THEN y
  ELSE IF y.sgn = 0 THEN x
  ELSE LET same == x.den = y.den
           a == IF same THEN x.num ELSE BMul(x.num, y.den)
           b == IF same THEN y.num ELSE BMul(y.num, x.den)
           d == IF same THEN x.den ELSE BMul(x.den, y.den)
           c == BCmp(a, b)
       IN  IF x.sgn = y.sgn THEN Mk(x.sgn, BAdd(a, b), d)
           ELSE IF c = 0 THEN Mk(0, <<>>, d)
           ELSE IF c > 0 THEN Mk(x.sgn, BSub(a, b), d)
           ELSE Mk(y.sgn, BSub(b, a), d)

\* x - y
Sub(x, y) == Add(x, Neg(y))

\* x * y
Mul(x, y) ==
  IF IsNaN(x) \/ IsNaN(y) THEN NaN
  ELSE IF IsInf(x) \/ IsInf(y)
       THEN (IF x.sgn * y.sgn = 0 THEN NaN
             ELSE IF x.sgn * y.sgn > 0 THEN Infinity ELSE NegInfinity)
  ELSE Mk(x.sgn * y.sgn, BMul(x.num, y.num), BMul(x.den, y.den))

\* x / y (a zero divisor is +0)
Div(x, y) ==
  IF IsNaN(x) \/ IsNaN(y) THEN NaN
  ELSE IF IsInf(y) THEN (IF IsInf(x) THEN NaN ELSE N(0))
  ELSE IF y.sgn = 0
       THEN (IF x.sgn = 0 THEN NaN ELSE IF x.sgn > 0 THEN Infinity ELSE NegInfinity)
  ELSE IF IsInf(x) THEN (IF x.sgn * y.sgn > 0 THEN Infinity ELSE NegInfinity)
  ELSE Mk(x.sgn * y.sgn, BMul(x.num, y.den), BMul(x.den, y.num))

\* -1, 0, 1 as x < y, x = y, x > y; neither argument is NaN
Cmp(x, y) ==
  IF IsInf(x) THEN (IF IsInf(y) /\ y.sgn = x.sgn THEN 0 ELSE x.sgn)
  ELSE IF IsInf(y) THEN -y.sgn
  ELSE IF x.sgn # y.sgn THEN (IF x.sgn < y.sgn THEN -1 ELSE 1)
  ELSE IF x.sgn = 0 THEN 0
  ELSE x.sgn * (IF x.den = y.den THEN BCmp(x.num, y.num)
                ELSE BCmp(BMul(x.num, y.den), BMul(y.num, x.den)))

\* the comparison operators: every comparison with NaN is false
Lt(x, y) == ~IsNaN(x) /\ ~IsNaN(y) /\ Cmp(x, y) < 0
Le(x, y) == ~IsNaN(x) /\ ~IsNaN(y) /\ Cmp(x, y) <= 0
Gt(x, y) == Lt(y, x)
Ge(x, y) == Le(y, x)
Eq(x, y) == ~IsNaN(x) /\ ~IsNaN(y) /\ Cmp(x, y) = 0

\* Math.min and Math.max: NaN when an argument is NaN
MathMin(x, y) == IF IsNaN(x) \/ IsNaN(y) THEN NaN ELSE IF Cmp(x, y) <= 0 THEN x ELSE y
MathMax(x, y) == IF IsNaN(x) \/ IsNaN(y) THEN NaN ELSE IF Cmp(x, y) >= 0 THEN x ELSE y

(***************************************************************************)
(* Dates.  A Date is [year, month] (month 0..11, as in new Date(y, m, 1)), *)
(* the first day of a month at midnight UTC.                               *)
(***************************************************************************)
Date(y, m) == [year |-> y, month |-> m]

LeapsBefore(y) == (y - 1) \div 4 - (y - 1) \div 100 + (y - 1) \div 400
IsLeap(y) == (y % 4 = 0 /\ y % 100 # 0) \/ y % 400 = 0
DaysBeforeMonth == <<0, 31, 59, 90, 120, 151, 181, 212, 243, 273, 304, 334>>

\* whole days from 1 January 1970 to the date
DaysFromEpoch(date) ==
  365 * (date.year - 1970) + LeapsBefore(date.year) - LeapsBefore(1970)
  + DaysBeforeMonth[date.month + 1]
  + (IF date.month >= 2 /\ IsLeap(date.year) THEN 1 ELSE 0)

MS_PER_DAY == Mul(N(1000 * 60 * 60), N(24))

\* date.getTime(), in milliseconds
getTime(date) == Mul(N(DaysFromEpoch(date)), MS_PER_DAY)

(***************************************************************************)
(* models/PowerLaw.ts                                                      *)
(***************************************************************************)
BITCOIN_GENESIS_TIMESTAMP == Mul(N(1231006505), N(1000))

\* 1.01e-17
POWER_LAW_A == [sgn |-> 1, num |-> <<101>>, den |-> <<0, 0, 0, 0, 1000>>]

getDaysSinceGenesis(date) ==
  LET millisecondsSinceGenesis == Sub(getTime(date), BITCOIN_GENESIS_TIMESTAMP)
      daysSinceGenesis == Div(millisecondsSinceGenesis, MS_PER_DAY)
  IN  MathMax(N(1), daysSinceGenesis)

\* POWER_LAW_A * Math.pow(daysSinceGenesis, 5.82) at 1 January of the years
\* 2020 .. 2090, to the nearest dollar
FairValueByYear ==
  << 9491, 15770, 25127, 38677, 57787, 84213,
     119835, 167120, 228909, 308770, 410129, 537614,
     696299, 892544, 1131811, 1421914, 1771062, 2189646,
     2685557, 3271071, 3958565, 4764006, 5697918, 6778601,
     8023767, 9456847, 11090916, 12952189, 15065013, 17462564,
     20159992, 23193702, 26596095, 30412832, 34660140, 39387327,
     44636392, 50468741, 56900026, 63995672, 71808942, 80420830,
     89843970, 100163685, 111446287, 123796866, 137221646, 151830267,
     167703995, 184977266, 203645385, 223847458, 245681720, 269318029,
     294734984, 322107100, 351551717, 383281106, 417249902, 453674871,
     492694701, 534572086, 579228773, 626931607, 677842984, 732285139,
     790136144, 851721837, 917230792, 987055123, 1061016359 >>

\* the same at the first of each month of the years 2025 .. 2030
FairValueByMonth ==
  << 84213, 86848, 89286, 92051, 94794, 97699,
     100580, 103631, 106758, 109859, 113140, 116393,
     119835, 123361, 126619, 130309, 133964, 137830,
     141659, 145708, 149851, 153954, 158291, 162583,
     167120, 171761, 176044, 180889, 185682, 190745,
     195753, 201041, 206448, 211794, 217439, 223019,
     228909, 234928, 240677, 246950, 253149, 259690,
     266152, 272969, 279930, 286806, 294058, 301219,
     308770, 316478, 323576, 331587, 339496, 347832,
     356060, 364731, 373576, 382303, 391499, 400572,
     410129, 419874, 428841, 438952, 448925, 459426,
     469781, 480684, 491796, 502751, 514283, 525650 >>

\* the fair value with the days since genesis clamped to 0 instead of 1
calculateFairValueClampedToZero(date) ==
  IF Le(getDaysSinceGenesis(date), N(1)) THEN N(0)
  ELSE IF date.month = 0 THEN N(FairValueByYear[date.year - 2020 + 1])
  ELSE N(FairValueByMonth[(date.year - 2025) * 12 + date.month + 1])

calculateFairValue(date) ==
  IF Le(getDaysSinceGenesis(date), N(1)) THEN POWER_LAW_A
  ELSE IF date.month = 0 THEN N(FairValueByYear[date.year - 2020 + 1])
  ELSE N(FairValueByMonth[(date.year - 2025) * 12 + date.month + 1])

\* the floor with the factor 4.2
calculateFloorPriceTenfold(date) == Mul(calculateFairValue(date), Q(42, 10))

calculateFloorPrice(date) == Mul(calculateFairValue(date), Q(42, 100))

calculateUpperBound(date) == Mul(calculateFairValue(date), N(2))

(***************************************************************************)
(* utils/SmartWithdrawalStrategy.ts.  A WithdrawalDecision is modelled     *)
(* without its reasoning text.                                             *)
(***************************************************************************)
Decision(cash, btc, strategy, ratio, action) ==
  [useCashAmount |-> cash, useBitcoinAmount |-> btc, strategy |-> strategy,
   fairValueRatio |-> ratio, recommendedAction |-> action]

extremeUndervaluedStrategy(availableCash, availableBitcoin, withdrawalNeeded, fairValueRatio, currentPrice) ==
  IF Ge(availableCash, withdrawalNeeded)
  THEN Decision(withdrawalNeeded, N(0), "Cash Only (Extreme HODL)",
                fairValueRatio, "HODL_BITCOIN")
  ELSE LET bitcoinNeeded == Div(Sub(withdrawalNeeded, availableCash), currentPrice)
       IN  Decision(availableCash, bitcoinNeeded, "Cash First, Minimal Bitcoin",
                    fairValueRatio, "HODL_BITCOIN")

\* the undervalued rule with the cash share held at 80% of the need
undervaluedStrategyEightyPercent(availableCash, availableBitcoin, withdrawalNeeded, fairValueRatio, currentPrice) ==
  LET preferredCashUsage == Mul(withdrawalNeeded, Q(8, 10))
  IN  IF Ge(availableCash, preferredCashUsage)
      THEN LET bitcoinNeeded ==
                 MathMax(N(0), Div(Sub(withdrawalNeeded, preferredCashUsage), currentPrice))
           IN  Decision(preferredCashUsage, bitcoinNeeded,
                        IF Gt(bitcoinNeeded, N(0)) THEN "Mostly Cash (80%+)" ELSE "Cash Only",
                        fairValueRatio, "HODL_BITCOIN")
      ELSE LET bitcoinNeeded == Div(Sub(withdrawalNeeded, availableCash), currentPrice)
           IN  Decision(availableCash, bitcoinNeeded, "Cash First, Some Bitcoin",
                        fairValueRatio, "HODL_BITCOIN")

undervaluedStrategy(availableCash, availableBitcoin, withdrawalNeeded, fairValueRatio, currentPrice) ==
  LET cashRatio == MathMin(N(1), Div(availableCash, withdrawalNeeded))
      preferredCashUsage == Mul(withdrawalNeeded, MathMax(Q(8, 10), cashRatio))
  IN  IF Ge(availableCash, preferredCashUsage)
      THEN LET bitcoinNeeded ==
                 MathMax(N(0), Div(Sub(withdrawalNeeded, preferredCashUsage), currentPrice))
           IN  Decision(preferredCashUsage, bitcoinNeeded,
                        IF Gt(bitcoinNeeded, N(0)) THEN "Mostly Cash (80%+)" ELSE "Cash Only",
                        fairValueRatio, "HODL_BITCOIN")
      ELSE LET bitcoinNeeded == Div(Sub(withdrawalNeeded, availableCash), currentPrice)
           IN  Decision(availableCash, bitcoinNeeded, "Cash First, Some Bitcoin",
                        fairValueRatio, "HODL_BITCOIN")

fairValueStrategy(availableCash, availableBitcoin, withdrawalNeeded, fairValueRatio, currentPrice) ==
  LET totalValue == Add(availableCash, Mul(availableBitcoin, currentPrice))
      cashRatio == Div(availableCash, totalValue)
      preferredCashUsage ==
        MathMin(availableCash,
                Mul(withdrawalNeeded, MathMin(Q(6, 10), Mul(cashRatio, Q(12, 10)))))
      bitcoinUsage ==
        MathMax(N(0), Div(Sub(withdrawalNeeded, preferredCashUsage), currentPrice))
  IN  Decision(preferredCashUsage, bitcoinUsage, "Balanced Withdrawal",
               fairValueRatio, "BALANCED")

\* the overvalued rule without the 80% cap on the bitcoin share
overvaluedStrategyUncapped(availableCash, availableBitcoin, withdrawalNeeded, fairValueRatio, currentPrice) ==
  LET bitcoinValue == Mul(availableBitcoin, currentPrice)
  IN  IF Ge(bitcoinValue, withdrawalNeeded)
      THEN Decision(N(0), Div(withdrawalNeeded, currentPrice),
                    "Bitcoin Only (Take Profits)", fairValueRatio, "SPEND_BITCOIN")
      ELSE LET cashNeeded == MathMax(N(0), Sub(withdrawalNeeded, bitcoinValue))
           IN  Decision(MathMin(availableCash, cashNeeded), availableBitcoin,
                        "Mostly Bitcoin (80%+)", fairValueRatio, "SPEND_BITCOIN")

overvaluedStrategy(availableCash, availableBitcoin, withdrawalNeeded, fairValueRatio, currentPrice) ==
  LET bitcoinValue == Mul(availableBitcoin, currentPrice)
  IN  IF Ge(bitcoinValue, withdrawalNeeded)
      THEN Decision(N(0), Div(withdrawalNeeded, currentPrice),
                    "Bitcoin Only (Take Profits)", fairValueRatio, "SPEND_BITCOIN")
      ELSE LET maxBitcoinUsage ==
                 MathMin(availableBitcoin,
                         Div(Mul(withdrawalNeeded, Q(8, 10)), currentPrice))
               cashNeeded ==
                 MathMax(N(0), Sub(withdrawalNeeded, Mul(maxBitcoinUsage, currentPrice)))
           IN  Decision(MathMin(availableCash, cashNeeded), maxBitcoinUsage,
                        "Mostly Bitcoin (80%+)", fairValueRatio, "SPEND_BITCOIN")

bubbleStrategy(availableCash, availableBitcoin, withdrawalNeeded, fairValueRatio, currentPrice) ==
  LET bitcoinNeeded == Div(withdrawalNeeded, currentPrice)
  IN  Decision(N(0), MathMin(availableBitcoin, bitcoinNeeded),
               "Bitcoin Only (Bubble Profits)", fairValueRatio, "SPEND_BITCOIN")

extremeBubbleStrategy(availableCash, availableBitcoin, withdrawalNeeded, fairValueRatio, currentPrice) ==
  LET bitcoinNeeded == Div(withdrawalNeeded, currentPrice)
  IN  Decision(N(0), MathMin(availableBitcoin, bitcoinNeeded),
               "Bitcoin Only (Extreme Bubble)", fairValueRatio, "SPEND_BITCOIN")

emergencyWithdrawal(context, fairValueRatio) ==
  IF Ge(context.availableCash, context.withdrawalNeeded)
  THEN Decision(context.withdrawalNeeded, N(0), "Emergency Cash",
                fairValueRatio, "EMERGENCY_ONLY")
  ELSE LET bitcoinNeeded ==
             Div(Sub(context.withdrawalNeeded, context.availableCash),
                 context.currentBitcoinPrice)
       IN  Decision(context.availableCash, bitcoinNeeded, "Emergency Mixed",
                    fairValueRatio, "EMERGENCY_ONLY")

\* calculateOptimalStrategy with exclusive upper thresholds (ratio < t)
calculateOptimalStrategyExclusive(fairValueRatio, currentPrice, availableCash, availableBitcoin, withdrawalNeeded) ==
  IF Lt(fairValueRatio, Q(5, 10))
  THEN extremeUndervaluedStrategy(availableCash, availableBitcoin, withdrawalNeeded,
                                  fairValueRatio, currentPrice)
  ELSE IF Lt(fairValueRatio, Q(8, 10))
  THEN undervaluedStrategy(availableCash, availableBitcoin, withdrawalNeeded,
                           fairValueRatio, currentPrice)
  ELSE IF Lt(fairValueRatio, Q(12, 10))
  THEN fairValueStrategy(availableCash, availableBitcoin, withdrawalNeeded,
                         fairValueRatio, currentPrice)
  ELSE IF Lt(fairValueRatio, Q(25, 10))
  THEN overvaluedStrategy(availableCash, availableBitcoin, withdrawalNeeded,
                          fairValueRatio, currentPrice)
  ELSE IF Lt(fairValueRatio, N(5))
  THEN bubbleStrategy(availableCash, availableBitcoin, withdrawalNeeded,
                      fairValueRatio, currentPrice)
  ELSE extremeBubbleStrategy(availableCash, availableBitcoin, withdrawalNeeded,
                             fairValueRatio, currentPrice)

calculateOptimalStrategy(fairValueRatio, currentPrice, availableCash, availableBitcoin, withdrawalNeeded) ==
  IF Le(fairValueRatio, Q(5, 10))
  THEN extremeUndervaluedStrategy(availableCash, availableBitcoin, withdrawalNeeded,
                                  fairValueRatio, currentPrice)
  ELSE IF Le(fairValueRatio, Q(8, 10))
  THEN undervaluedStrategy(availableCash, availableBitcoin, withdrawalNeeded,
                           fairValueRatio, currentPrice)
  ELSE IF Le(fairValueRatio, Q(12, 10))
  THEN fairValueStrategy(availableCash, availableBitcoin, withdrawalNeeded,
                         fairValueRatio, currentPrice)
  ELSE IF Le(fairValueRatio, Q(25, 10))
  THEN overvaluedStrategy(availableCash, availableBitcoin, withdrawalNeeded,
                          fairValueRatio, currentPrice)
  ELSE IF Le(fairValueRatio, N(5))
  THEN bubbleStrategy(availableCash, availableBitcoin, withdrawalNeeded,
                      fairValueRatio, currentPrice)
  ELSE extremeBubbleStrategy(availableCash, availableBitcoin, withdrawalNeeded,
                             fairValueRatio, currentPrice)

\* calculateWithdrawal that takes the emergency path whatever the mode
calculateWithdrawalEmergency(context) ==
  emergencyWithdrawal(context,
                      Div(context.currentBitcoinPrice,
                          calculateFairValue(context.currentDate)))

calculateWithdrawal(context) ==
  LET fairValue == calculateFairValue(context.currentDate)
      fairValueRatio == Div(context.currentBitcoinPrice, fairValue)
  IN  IF context.emergencyMode
      THEN emergencyWithdrawal(context, fairValueRatio)
      ELSE calculateOptimalStrategy(fairValueRatio, context.currentBitcoinPrice,
                                    context.availableCash, context.availableBitcoin,
                                    context.withdrawalNeeded)

(***************************************************************************)
(* utils/RetirementCalculations.ts: testBearMarketSurvival                 *)
(***************************************************************************)
BearMarketTestResult(passes, remainingBitcoin, remainingCash) ==
  [passes |-> passes, remainingBitcoin |-> remainingBitcoin, remainingCash |-> remainingCash]

\* the guard of the early return
invalidBearInputStrict(bitcoinHoldings, annualWithdrawal) ==
  Lt(bitcoinHoldings, N(0)) \/ Lt(annualWithdrawal, N(0))

invalidBearInput(bitcoinHoldings, annualWithdrawal) ==
  Le(bitcoinHoldings, N(0)) \/ Le(annualWithdrawal, N(0))

\* one forced year that never reports a negative balance
cashFirstYearNoStop(remainingBitcoin, remainingCash, annualWithdrawal, price) ==
  IF Ge(remainingCash, annualWithdrawal)
  THEN [remainingBitcoin |-> remainingBitcoin,
        remainingCash |-> Sub(remainingCash, annualWithdrawal), depleted |-> FALSE]
  ELSE [remainingBitcoin |->
          Sub(remainingBitcoin, Div(Sub(annualWithdrawal, remainingCash), price)),
        remainingCash |-> N(0), depleted |-> FALSE]

\* one forced year: cash first, the shortfall from bitcoin at the year's price;
\* depleted when the sale leaves remainingBitcoin < 0
cashFirstYear(remainingBitcoin, remainingCash, annualWithdrawal, price) ==
  IF Ge(remainingCash, annualWithdrawal)
  THEN [remainingBitcoin |-> remainingBitcoin,
        remainingCash |-> Sub(remainingCash, annualWithdrawal), depleted |-> FALSE]
  ELSE LET remainingNeeded == Sub(annualWithdrawal, remainingCash)
           bitcoinToSell == Div(remainingNeeded, price)
           left == Sub(remainingBitcoin, bitcoinToSell)
       IN  [remainingBitcoin |-> left, remainingCash |-> N(0),
            depleted |-> Lt(left, N(0))]

bearRecoveryPrice(fairValue, floorValue) ==
  Add(floorValue, Mul(Sub(fairValue, floorValue), Q(75, 100)))

runwayPassesStrict(totalRemainingValue, annualWithdrawal) ==
  Gt(Div(totalRemainingValue, annualWithdrawal), N(20))

\* the runway check with == in place of >=
runwayPassesExactly(totalRemainingValue, annualWithdrawal) ==
  Eq(Div(totalRemainingValue, annualWithdrawal), N(20))

\* yearsOfRunway >= minimumYearsRequired
runwayPasses(totalRemainingValue, annualWithdrawal) ==
  Ge(Div(totalRemainingValue, annualWithdrawal), N(20))

BearFailed == BearMarketTestResult(FALSE, N(0), N(0))

\* Year 3: back to fair value, the runway check on what the forced years left
bearRunwayCheck(last, annualWithdrawal, fairValue) ==
  IF last.depleted THEN BearFailed
  ELSE BearMarketTestResult(
         runwayPasses(Add(Mul(last.remainingBitcoin, fairValue), last.remainingCash),
                      annualWithdrawal),
         last.remainingBitcoin, last.remainingCash)

\* Year 2: bear market recovery, after year 1
bearRecoveryYear(year1, annualWithdrawal, fairValue, floorValue) ==
  IF year1.depleted THEN BearFailed
  ELSE bearRunwayCheck(cashFirstYear(year1.remainingBitcoin, year1.remainingCash,
                                     annualWithdrawal,
                                     bearRecoveryPrice(fairValue, floorValue)),
                       annualWithdrawal, fairValue)

\* Year 1: deep bear market at the Power Law floor, then the rest
bearStressSequence(bitcoinHoldings, annualWithdrawal, cashHoldings, fairValue, floorValue) ==
  bearRecoveryYear(cashFirstYear(bitcoinHoldings, MathMax(N(0), cashHoldings),
                                 annualWithdrawal, floorValue),
                   annualWithdrawal, fairValue, floorValue)

\* the stress test with the forced years priced from the bitcoinPrice argument
testBearMarketSurvivalAtPrice(bitcoinPrice, year, bitcoinHoldings, annualWithdrawal, cashHoldings) ==
  IF invalidBearInput(bitcoinHoldings, annualWithdrawal)
  THEN BearMarketTestResult(FALSE, N(0), N(0))
  ELSE bearStressSequence(bitcoinHoldings, annualWithdrawal, cashHoldings,
                          calculateFairValue(Date(year, 0)),
                          Mul(bitcoinPrice, Q(42, 100)))

testBearMarketSurvival(bitcoinPrice, year, bitcoinHoldings, annualWithdrawal, cashHoldings) ==
  IF invalidBearInput(bitcoinHoldings, annualWithdrawal)
  THEN BearMarketTestResult(FALSE, N(0), N(0))
  ELSE bearStressSequence(bitcoinHoldings, annualWithdrawal, cashHoldings,
                          calculateFairValue(Date(year, 0)),
                          calculateFloorPrice(Date(year, 0)))

(***************************************************************************)
(* utils/RetirementLogic.test.ts: the reference bearMarketTest             *)
(***************************************************************************)
\* the runway check of the reference
referenceRunwayCheck(year3, annualWithdrawal, fairValue) ==
  IF year3.depleted THEN BearFailed
  ELSE BearMarketTestResult(
         Ge(Div(Add(Mul(year3.remainingBitcoin, fairValue), year3.remainingCash),
                annualWithdrawal), N(20)),
         year3.remainingBitcoin, year3.remainingCash)

\* Year 3 recovery, after year 2
referenceYear3(year2, annualWithdrawal, fairValue, floorValue) ==
  IF year2.depleted THEN BearFailed
  ELSE referenceRunwayCheck(cashFirstYear(year2.remainingBitcoin, year2.remainingCash,
                                          annualWithdrawal,
                                          bearRecoveryPrice(fairValue, floorValue)),
                            annualWithdrawal, fairValue)

\* Year 2 at floor, after year 1
referenceYear2(year1, annualWithdrawal, fairValue, floorValue) ==
  IF year1.depleted THEN BearFailed
  ELSE referenceYear3(cashFirstYear(year1.remainingBitcoin, year1.remainingCash,
                                    annualWithdrawal, floorValue),
                      annualWithdrawal, fairValue, floorValue)

\* Year 1 at floor, then the rest
referenceSequence(bitcoinHoldings, annualWithdrawal, cashHoldings, fairValue, floorValue) ==
  referenceYear2(cashFirstYear(bitcoinHoldings, MathMax(N(0), cashHoldings),
                               annualWithdrawal, floorValue),
                 annualWithdrawal, fairValue, floorValue)

bearMarketTest(year, bitcoinHoldings, annualWithdrawal, cashHoldings) ==
  IF Le(bitcoinHoldings, N(0)) \/ Le(annualWithdrawal, N(0))
  THEN BearMarketTestResult(FALSE, N(0), N(0))
  ELSE referenceSequence(bitcoinHoldings, annualWithdrawal, cashHoldings,
                         calculateFairValue(Date(year, 0)),
                         calculateFloorPrice(Date(year, 0)))

(***************************************************************************)
(* State.  context and decision are the argument and the result of         *)
(* calculateWithdrawal; bearInput the arguments of testBearMarketSurvival, *)
(* bearResult its result and bearReference the result of the reference     *)
(* bearMarketTest on the same arguments.  retirementInputs,                *)
(* monthlySavingsInputs and savingsProjection are the state of the chart   *)
(* component, chart holds its currentPrice and the year of 'now',          *)
(* simulation is the ledger that simulate50YearWithdrawals is building and *)
(* loop holds the locals of its withdrawal loop; planPoint is a point of   *)
(* the chart's plan line.  savingsArgs and monthlyProjection are the       *)
(* arguments and the array of utils/calculateMonthlySavingsProjection,     *)
(* validationArgs and validation those of validateRetirementInputs,        *)
(* priceDate and priceBands a date and the three BitcoinPowerLaw values    *)
(* for it.                                                                 *)
(***************************************************************************)
VARIABLES pc, context, decision, bearInput, bearResult, bearReference
VARIABLES retirementInputs, monthlySavingsInputs, chart, savingsProjection, simulation, loop
VARIABLES planPoint, savingsArgs, monthlyProjection, validationArgs, validation, priceDate, priceBands
withdrawalVars == <<context, decision>>
bearVars == <<bearInput, bearResult, bearReference>>
simulationVars == <<retirementInputs, monthlySavingsInputs, chart, savingsProjection, simulation, loop>>
chartVars == <<planPoint>>
utilVars == <<savingsArgs, monthlyProjection, validationArgs, validation, priceDate, priceBands>>
vars == <<pc, withdrawalVars, bearVars, simulationVars, chartVars, utilVars>>

None == [none |-> TRUE]

(***************************************************************************)
(* Specification of calculateWithdrawal: the context is drawn from a grid  *)
(* of non-negative inputs whose prices sit on, just above and between the  *)
(* band thresholds; one step applies the function.                         *)
(***************************************************************************)
RatioGrid ==
  {Q(42, 100), Q(5, 10), Q(51, 100), Q(8, 10), Q(81, 100), N(1), Q(12, 10),
   Q(121, 100), Q(125, 100), Q(25, 10), Q(251, 100), N(5), Q(501, 100), N(6)}
DateGrid == {Date(2026, 0), Date(2030, 0)}
CashGrid == {N(0), N(5000), N(40000), N(45000), N(60000)}
BitcoinGrid == {N(0), Q(1, 10), Q(4, 10), N(1)}
NeededGrid == {N(0), N(1000), N(50000)}

ContextGrid ==
  {[currentBitcoinPrice |-> Mul(r, calculateFairValue(d)), currentDate |-> d,
    availableCash |-> c, availableBitcoin |-> b, withdrawalNeeded |-> w,
    emergencyMode |-> e] :
     r \in RatioGrid, d \in DateGrid, c \in CashGrid, b \in BitcoinGrid,
     w \in NeededGrid, e \in BOOLEAN}

\* the chart component is not mounted
NoSimulation ==
  /\ retirementInputs = None /\ monthlySavingsInputs = None /\ chart = None
  /\ savingsProjection = None /\ simulation = None /\ loop = None
  /\ planPoint = None

\* the functions of utils/RetirementCalculations.ts and the price model are
\* not called on their own
NoUtils ==
  /\ savingsArgs = None /\ monthlyProjection = None
  /\ validationArgs = None /\ validation = None
  /\ priceDate = None /\ priceBands = None

InitWithdrawal ==
  /\ pc = "start"
  /\ context \in ContextGrid
  /\ decision = None
  /\ bearInput = None /\ bearResult = None /\ bearReference = None
  /\ NoSimulation
  /\ NoUtils

CalculateWithdrawal ==
  /\ pc = "start"
  /\ decision' = calculateWithdrawal(context)
  /\ pc' = "done"
  /\ UNCHANGED <<context, bearVars, simulationVars>>
  /\ UNCHANGED <<chartVars, utilVars>>

NextWithdrawal == CalculateWithdrawal

SpecWithdrawal == InitWithdrawal /\ [][NextWithdrawal]_vars

(***************************************************************************)
(* Specification of testBearMarketSurvival: the arguments are drawn from a *)
(* grid that holds invalid, negative-cash, depleting, failing, passing and *)
(* exact-boundary inputs; one step applies the function, the next the      *)
(* reference bearMarketTest.                                               *)
(***************************************************************************)
BearYearGrid == {2026, 2035}
BearWithdrawalGrid == {N(-1000), N(0), N(50000), N(120000)}
BearCashGrid(w) == {N(-10000), N(0), w, Mul(N(2), w), Mul(N(3), w), N(3000000)}

\* the holdings that leave exactly 20 years of runway when there is no cash:
\* what two forced years sell, plus 20 withdrawals at fair value
BoundaryHoldings(year, w) ==
  LET fairValue == calculateFairValue(Date(year, 0))
      floorValue == calculateFloorPrice(Date(year, 0))
  IN  Add(Add(Div(w, floorValue), Div(w, bearRecoveryPrice(fairValue, floorValue))),
          Div(Mul(N(20), w), fairValue))

BearHoldingsGrid(year, w) ==
  {N(-1), N(0), Q(1, 10), N(1), N(2), N(10), N(40),
   Div(Mul(N(20), w), calculateFairValue(Date(year, 0))),
   BoundaryHoldings(year, w),
   Sub(BoundaryHoldings(year, w), Q(1, 1000))}

InitBear ==
  /\ pc = "start"
  /\ \E y \in BearYearGrid, w \in BearWithdrawalGrid :
       \E r \in {Q(42, 100), N(1)}, b \in BearHoldingsGrid(y, w), c \in BearCashGrid(w) :
         bearInput = [bitcoinPrice |-> Mul(r, calculateFairValue(Date(y, 0))), year |-> y,
                      bitcoinHoldings |-> b, annualWithdrawal |-> w, cashHoldings |-> c]
  /\ bearResult = None /\ bearReference = None
  /\ context = None /\ decision = None
  /\ NoSimulation
  /\ NoUtils

TestBearMarketSurvival ==
  /\ pc = "start"
  /\ bearResult' = testBearMarketSurvival(bearInput.bitcoinPrice, bearInput.year,
                                          bearInput.bitcoinHoldings,
                                          bearInput.annualWithdrawal,
                                          bearInput.cashHoldings)
  /\ pc' = "tested"
  /\ UNCHANGED <<bearInput, bearReference, withdrawalVars, simulationVars>>
  /\ UNCHANGED <<chartVars, utilVars>>

BearMarketTest ==
  /\ pc = "tested"
  /\ bearReference' = bearMarketTest(bearInput.year, bearInput.bitcoinHoldings,
                                     bearInput.annualWithdrawal, bearInput.cashHoldings)
  /\ pc' = "done"
  /\ UNCHANGED <<bearInput, bearResult, withdrawalVars, simulationVars>>
  /\ UNCHANGED <<chartVars, utilVars>>

NextBear == TestBearMarketSurvival \/ BearMarketTest

SpecBear == InitBear /\ [][NextBear]_vars

(***************************************************************************)
(* The chart component: calculateMonthlySavingsProjection and              *)
(* simulate50YearWithdrawals.  The component's functions are closures over *)
(* its state, and so are the operators below.  'now' is midnight of        *)
(* 1 January of chart.currentYear.  Of the display text withdrawalSource   *)
(* the model keeps the strategy name and the tags, not the formatted       *)
(* amounts and percentages.                                                *)
(***************************************************************************)

\* !x for a number | null
Falsy(x) == IF x = None THEN TRUE ELSE IsNaN(x) \/ x.sgn = 0

\* the switch with the bull price 0.7 of the upper bound above fair value
cyclePriceOverUpper(cycleYear, bitcoinFairValue, floorValue, upperBound) ==
  CASE cycleYear = 0 -> floorValue
    [] cycleYear = 1 ->
         Add(floorValue, Mul(Sub(bitcoinFairValue, floorValue), Q(75, 100)))
    [] cycleYear = 2 -> Add(bitcoinFairValue, Mul(upperBound, Q(7, 10)))
    [] cycleYear = 3 ->
         Add(bitcoinFairValue, Mul(Sub(upperBound, bitcoinFairValue), Q(3, 10)))
    [] OTHER -> bitcoinFairValue

\* the switch on the position within the 4-year cycle
cyclePrice(cycleYear, bitcoinFairValue, floorValue, upperBound) ==
  CASE cycleYear = 0 -> floorValue
    [] cycleYear = 1 ->
         Add(floorValue, Mul(Sub(bitcoinFairValue, floorValue), Q(75, 100)))
    [] cycleYear = 2 ->
         Add(bitcoinFairValue, Mul(Sub(upperBound, bitcoinFairValue), Q(7, 10)))
    [] cycleYear = 3 ->
         Add(bitcoinFairValue, Mul(Sub(upperBound, bitcoinFairValue), Q(3, 10)))
    [] OTHER -> bitcoinFairValue

\* the price of the accumulation phase: fair value in the current year, the
\* calendar-aligned cycle afterwards
bitcoinCyclePrice(year, actualYear, projectionDate) ==
  IF year = 0
  THEN calculateFairValue(projectionDate)
  ELSE cyclePrice((actualYear - 1) % 4, calculateFairValue(projectionDate),
                  calculateFloorPrice(projectionDate),
                  calculateUpperBound(projectionDate))

isBearMarketYear(actualYear) == (actualYear - 1) % 4 \in {0, 1}

actualMonthlySavings(actualYear) ==
  IF monthlySavingsInputs.doubleDownInBearMarkets /\ isBearMarketYear(actualYear)
  THEN Mul(monthlySavingsInputs.monthlySavingsAmount, N(2))
  ELSE monthlySavingsInputs.monthlySavingsAmount

\* the entry with the month's purchase in place of the running total
SavingsProjectionNoCarry(year, month, savings, bitcoinFairValue, price, totalBitcoinAccumulated, totalCashInvested) ==
  [year |-> year + 1, month |-> month + 1,
   monthlySavingsAmount |-> savings,
   bitcoinFairValue |-> bitcoinFairValue,
   bitcoinCyclePrice |-> price,
   bitcoinPurchased |-> Div(savings, price),
   totalBitcoinAccumulated |-> Div(savings, price),
   totalCashInvested |-> Add(totalCashInvested, savings)]

\* the entry pushed for a month
SavingsProjection(year, month, savings, bitcoinFairValue, price, totalBitcoinAccumulated, totalCashInvested) ==
  [year |-> year + 1, month |-> month + 1,
   monthlySavingsAmount |-> savings,
   bitcoinFairValue |-> bitcoinFairValue,
   bitcoinCyclePrice |-> price,
   bitcoinPurchased |-> Div(savings, price),
   totalBitcoinAccumulated |-> Add(totalBitcoinAccumulated, Div(savings, price)),
   totalCashInvested |-> Add(totalCashInvested, savings)]

\* the body of the month loop; the running totals are those of the last entry
projectMonth(year, month, projectionDate, projection) ==
  SavingsProjection(year, month, actualMonthlySavings(projectionDate.year),
    calculateFairValue(projectionDate),
    bitcoinCyclePrice(year, projectionDate.year, projectionDate),
    IF Len(projection) = 0 THEN N(0)
    ELSE projection[Len(projection)].totalBitcoinAccumulated,
    IF Len(projection) = 0 THEN N(0)
    ELSE projection[Len(projection)].totalCashInvested)

\* the month loop of projection year `year`; the month to project is the
\* number of entries that the year has
RECURSIVE projectMonths(_, _)
projectMonths(year, projection) ==
  IF Len(projection) - 12 * year >= 12
  THEN projection
  ELSE projectMonths(year,
         Append(projection,
                projectMonth(year, Len(projection) - 12 * year,
                             Date(chart.currentYear + year, Len(projection) - 12 * year),
                             projection)))

\* the condition of the early return of calculateMonthlySavingsProjection
noSavingsPlan ==
  \/ ~monthlySavingsInputs.enabled
  \/ Le(monthlySavingsInputs.monthlySavingsAmount, N(0))
  \/ monthlySavingsInputs.yearsToRetirement <= 0

hasAssets ==
  \/ Gt(retirementInputs.bitcoinAmount, N(0))
  \/ monthlySavingsInputs.enabled /\ Gt(monthlySavingsInputs.monthlySavingsAmount, N(0))

\* the condition of the early return of simulate50YearWithdrawals
nothingToSimulate ==
  Falsy(chart.currentPrice) \/ ~hasAssets \/ Le(retirementInputs.annualWithdrawal, N(0))

yearsToRetirement ==
  IF monthlySavingsInputs.enabled THEN monthlySavingsInputs.yearsToRetirement ELSE 0

retirementStartYear ==
  chart.currentYear + IntMax(retirementInputs.yearsUntilRetirement, yearsToRetirement)

projectedBitcoin ==
  IF monthlySavingsInputs.enabled /\ Len(savingsProjection) > 0
  THEN savingsProjection[Len(savingsProjection)].totalBitcoinAccumulated
  ELSE N(0)

totalCashInvested ==
  IF monthlySavingsInputs.enabled /\ Len(savingsProjection) > 0
  THEN savingsProjection[Len(savingsProjection)].totalCashInvested
  ELSE N(0)

\* the withdrawal phase starts from the savings alone
accumulatedBitcoinSavingsOnly == projectedBitcoin

accumulatedBitcoin == Add(retirementInputs.bitcoinAmount, projectedBitcoin)

\* the indexes of the months that are aggregated under the key actualYear
monthsOfYear(actualYear) ==
  {k \in DOMAIN savingsProjection :
     chart.currentYear + savingsProjection[k].year - 1 = actualYear}

\* yearlyAggregation[actualYear] after one more month
aggregateMonth(yearData, monthData) ==
  [bitcoinPurchased |-> Add(yearData.bitcoinPurchased, monthData.bitcoinPurchased),
   cashInvested |-> Add(yearData.cashInvested, monthData.monthlySavingsAmount),
   endingBitcoin |-> Add(retirementInputs.bitcoinAmount,
                         monthData.totalBitcoinAccumulated)]

\* the months are processed in the order of the projection
RECURSIVE aggregateMonths(_, _)
aggregateMonths(months, yearData) ==
  IF months = {}
  THEN yearData
  ELSE aggregateMonths(
         months \ {CHOOSE k \in months : \A j \in months : k <= j},
         aggregateMonth(yearData,
           savingsProjection[CHOOSE k \in months : \A j \in months : k <= j]))

\* yearlyAggregation[actualYear]; None when the key is absent
yearlyAggregation(actualYear) ==
  IF monthsOfYear(actualYear) = {} THEN None
  ELSE aggregateMonths(monthsOfYear(actualYear),
         [bitcoinPurchased |-> N(0), cashInvested |-> N(0), endingBitcoin |-> N(0)])

accumulationCyclePhase(year, cycleYear) ==
  IF year = 0 THEN "Current Year (Fair Value)"
  ELSE CASE cycleYear = 0 -> "Deep Bear (Floor)"
         [] cycleYear = 1 -> "Bear Market Recovery"
         [] cycleYear = 2 -> "Bull Market"
         [] cycleYear = 3 -> "Bull Peak & Correction"
         [] OTHER -> "Fair Value"

\* the ledger row of an accumulation year
accumulationRow(year, simulationYear, yearData, price, bitcoinFairValue, cumulativeCashInvested) ==
  [year |-> simulationYear,
   yearNumber |-> year + 1,
   phase |-> "ACCUMULATION",
   bitcoinPrice |-> price,
   fairValue |-> bitcoinFairValue,
   priceToFairRatio |-> Div(price, bitcoinFairValue),
   cyclePhase |-> accumulationCyclePhase(year, (simulationYear - 1) % 4),
   annualWithdrawal |-> N(0),
   withdrawalSource |->
     [strategy |-> "Investing",
      bearMarket |-> monthlySavingsInputs.doubleDownInBearMarkets
                      /\ isBearMarketYear(simulationYear),
      depleted |-> FALSE, retirementStart |-> FALSE],
   cashUsed |-> N(0),
   bitcoinSold |-> N(0),
   bitcoinPurchased |-> yearData.bitcoinPurchased,
   remainingCash |-> retirementInputs.cashAmount,
   remainingBitcoin |-> yearData.endingBitcoin,
   remainingBitcoinValue |-> Mul(yearData.endingBitcoin, price),
   totalRemainingValue |->
     Add(Mul(yearData.endingBitcoin, price), retirementInputs.cashAmount),
   totalCashInvested |-> cumulativeCashInvested]

\* the row of the iteration `year` of the accumulation loop
accumulationYear(year, simulationYear, yearData) ==
  accumulationRow(year, simulationYear, yearData,
                  bitcoinCyclePrice(year, simulationYear, Date(simulationYear, 0)),
                  calculateFairValue(Date(simulationYear, 0)),
                  Add(loop.cumulativeCashInvested, yearData.cashInvested))

\* a withdrawal loop that stops one year early
WithdrawalYearsOneShort == 50 - 1

\* the number of years of the withdrawal loop
WithdrawalYears == 50

\* the phase price without the recovery year: three years at the floor
withdrawalPhasePriceNoRecovery(year, fairValue, floorValue, upperBound) ==
  IF year = 0 \/ year = 1 \/ year = 2 THEN floorValue
  ELSE cyclePrice((year - 3) % 4, fairValue, floorValue, upperBound)

\* the price of year `year` of the withdrawal phase: two years at the floor,
\* a recovery year, then the 4-year cycle floor, recovery, bull, peak
withdrawalPhasePrice(year, fairValue, floorValue, upperBound) ==
  IF year = 0 \/ year = 1 THEN floorValue
  ELSE IF year = 2
  THEN Add(floorValue, Mul(Sub(fairValue, floorValue), Q(75, 100)))
  ELSE cyclePrice((year - 3) % 4, fairValue, floorValue, upperBound)

withdrawalCyclePhase(year) ==
  IF year = 0 THEN "Retirement Start (Deep Bear - Year 1)"
  ELSE IF year = 1 THEN "Deep Bear (Floor) - Year 2"
  ELSE IF year = 2 THEN "Bear Market Recovery"
  ELSE CASE (year - 3) % 4 = 0 -> "Deep Bear (Floor)"
         [] (year - 3) % 4 = 1 -> "Bear Market Recovery"
         [] (year - 3) % 4 = 2 -> "Bull Market"
         [] (year - 3) % 4 = 3 -> "Bull Peak & Correction"
         [] OTHER -> "Fair Value"

\* the clamp left out
clampDepletedNever(remainingBitcoin) == remainingBitcoin

\* if (remainingBitcoin < 0) remainingBitcoin = 0
clampDepleted(remainingBitcoin) ==
  IF Lt(remainingBitcoin, N(0)) THEN N(0) ELSE remainingBitcoin

\* the break condition with || in place of &&
simulationDepletedEither(remainingBitcoin, remainingCash) ==
  Le(remainingBitcoin, N(0)) \/ Le(remainingCash, N(0))

\* the break condition of the withdrawal loop
simulationDepleted(remainingBitcoin, remainingCash) ==
  Le(remainingBitcoin, N(0)) /\ Le(remainingCash, N(0))

\* the ledger row of a withdrawal year; remainingBitcoin is the clamped value
withdrawalRow(year, currentSimulationYear, fairValue, bitcoinPrice, withdrawalDecision, remainingCash, remainingBitcoin, depleted) ==
  [year |-> currentSimulationYear,
   yearNumber |-> yearsToRetirement + year + 1,
   phase |-> IF year = 0 THEN "RETIREMENT START" ELSE "WITHDRAWAL",
   bitcoinPrice |-> bitcoinPrice,
   fairValue |-> fairValue,
   priceToFairRatio |-> Div(bitcoinPrice, fairValue),
   cyclePhase |-> withdrawalCyclePhase(year),
   annualWithdrawal |-> retirementInputs.annualWithdrawal,
   withdrawalSource |->
     [strategy |-> withdrawalDecision.strategy, bearMarket |-> FALSE,
      depleted |-> depleted, retirementStart |-> year = 0],
   cashUsed |-> withdrawalDecision.useCashAmount,
   bitcoinSold |-> withdrawalDecision.useBitcoinAmount,
   bitcoinPurchased |-> N(0),
   remainingCash |-> remainingCash,
   remainingBitcoin |-> remainingBitcoin,
   remainingBitcoinValue |-> Mul(remainingBitcoin, bitcoinPrice),
   totalRemainingValue |-> Add(Mul(remainingBitcoin, bitcoinPrice), remainingCash),
   totalCashInvested |-> loop.cumulativeCashInvested]

\* the clamp of the bitcoin that is left, and the row
applyDecision(year, targetDate, fairValue, bitcoinPrice, withdrawalDecision, remainingCash, remainingBitcoin) ==
  withdrawalRow(year, targetDate.year, fairValue, bitcoinPrice, withdrawalDecision,
                remainingCash, clampDepleted(remainingBitcoin),
                Lt(remainingBitcoin, N(0)))

\* remainingCash -= cashUsed; remainingBitcoin -= bitcoinSold
withdrawalAtPrice(year, targetDate, fairValue, bitcoinPrice, withdrawalDecision) ==
  applyDecision(year, targetDate, fairValue, bitcoinPrice, withdrawalDecision,
                Sub(loop.remainingCash, withdrawalDecision.useCashAmount),
                Sub(loop.remainingBitcoin, withdrawalDecision.useBitcoinAmount))

withdrawalInYear(year, targetDate, fairValue, bitcoinPrice) ==
  withdrawalAtPrice(year, targetDate, fairValue, bitcoinPrice,
    calculateWithdrawal([currentBitcoinPrice |-> bitcoinPrice,
                         currentDate |-> targetDate,
                         availableCash |-> loop.remainingCash,
                         availableBitcoin |-> loop.remainingBitcoin,
                         withdrawalNeeded |-> retirementInputs.annualWithdrawal,
                         emergencyMode |-> FALSE]))

\* the row that the iteration `year` of the withdrawal loop pushes
withdrawalYear(year, targetDate) ==
  withdrawalInYear(year, targetDate, calculateFairValue(targetDate),
                   withdrawalPhasePrice(year, calculateFairValue(targetDate),
                                        calculateFloorPrice(targetDate),
                                        calculateUpperBound(targetDate)))

\* calculateRetirementStatus: the year at which retirement is evaluated
evaluationYear ==
  chart.currentYear + IntMax(retirementInputs.yearsUntilRetirement, yearsToRetirement)

\* the verdict of the retirement analysis on the returned ledger
simulationSucceeds ==
  /\ Len(simulation) >= 50
  /\ Gt(simulation[Len(simulation)].remainingBitcoin, N(0))
  /\ Gt(simulation[Len(simulation)].totalRemainingValue, N(0))

\* the anchor as the assets summary computes its retirement year: the
\* savings plan's years count also when the plan is disabled
chartRetirementStartYearAnyPlan ==
  chart.currentYear
  + IntMax(retirementInputs.yearsUntilRetirement, monthlySavingsInputs.yearsToRetirement)

\* the anchor of the chart's plan line
chartRetirementStartYear ==
  chart.currentYear
  + IntMax(retirementInputs.yearsUntilRetirement,
           IF monthlySavingsInputs.enabled
           THEN monthlySavingsInputs.yearsToRetirement ELSE 0)

\* the reference formula of the test suite
getRetirementStartYear(currentYear, yearsUntilRetirement, savingsEnabled, savingsYears) ==
  IF savingsEnabled /\ savingsYears > 0
  THEN currentYear + IntMax(yearsUntilRetirement, savingsYears)
  ELSE currentYear + yearsUntilRetirement

\* getChartPlanPriceForYear with the offset shifted by one year
chartPlanPriceShifted(offset, fairValue, floorValue, upperBound) ==
  IF offset = 0 \/ offset = 1 \/ offset = 2 THEN floorValue
  ELSE IF offset = 3
  THEN Add(floorValue, Mul(Sub(fairValue, floorValue), Q(75, 100)))
  ELSE CASE (offset - 4) % 4 = 0 -> floorValue
         [] (offset - 4) % 4 = 1 ->
              Add(floorValue, Mul(Sub(fairValue, floorValue), Q(75, 100)))
         [] (offset - 4) % 4 = 2 ->
              Add(fairValue, Mul(Sub(upperBound, fairValue), Q(7, 10)))
         [] (offset - 4) % 4 = 3 ->
              Add(fairValue, Mul(Sub(upperBound, fairValue), Q(3, 10)))
         [] OTHER -> fairValue

\* getChartPlanPriceForYear from `offset` on
chartPlanPrice(offset, fairValue, floorValue, upperBound) ==
  IF offset = 0 \/ offset = 1 THEN floorValue
  ELSE IF offset = 2
  THEN Add(floorValue, Mul(Sub(fairValue, floorValue), Q(75, 100)))
  ELSE CASE (offset - 3) % 4 = 0 -> floorValue
         [] (offset - 3) % 4 = 1 ->
              Add(floorValue, Mul(Sub(fairValue, floorValue), Q(75, 100)))
         [] (offset - 3) % 4 = 2 ->
              Add(fairValue, Mul(Sub(upperBound, fairValue), Q(7, 10)))
         [] (offset - 3) % 4 = 3 ->
              Add(fairValue, Mul(Sub(upperBound, fairValue), Q(3, 10)))
         [] OTHER -> fairValue

\* null before the retirement start year
getChartPlanPriceForYear(year) ==
  IF year < chartRetirementStartYear THEN None
  ELSE chartPlanPrice(year - chartRetirementStartYear,
                      calculateFairValue(Date(year, 0)),
                      calculateFloorPrice(Date(year, 0)),
                      calculateUpperBound(Date(year, 0)))

\* a point of chartDataWithPlan: the plan price is shown when there is a ledger
chartPointWithPlan(year) ==
  [year |-> year,
   planPrice |-> getChartPlanPriceForYear(year),
   withdrawalPlanPrice |->
     IF Len(simulation) > 0 THEN getChartPlanPriceForYear(year) ELSE None]

(***************************************************************************)
(* utils/RetirementCalculations.ts: calculateCyclePrice and                *)
(* calculateMonthlySavingsProjection.  The start date is the first of a    *)
(* month; every iteration of the year loop is a step.                      *)
(***************************************************************************)
calculateCyclePrice(year, isCurrentYear) ==
  IF isCurrentYear
  THEN [price |-> calculateFairValue(Date(year, 0)),
        phase |-> "Current Year (Fair Value)", cycleYear |-> (year - 1) % 4]
  ELSE [price |-> cyclePrice((year - 1) % 4, calculateFairValue(Date(year, 0)),
                             calculateFloorPrice(Date(year, 0)),
                             calculateUpperBound(Date(year, 0))),
        phase |-> CASE (year - 1) % 4 = 0 -> "Deep Bear (Floor)"
                    [] (year - 1) % 4 = 1 -> "Bear Market Recovery"
                    [] (year - 1) % 4 = 2 -> "Bull Market"
                    [] (year - 1) % 4 = 3 -> "Bull Peak & Correction"
                    [] OTHER -> "Fair Value",
        cycleYear |-> (year - 1) % 4]

\* setFullYear(getFullYear() + year); setMonth(getMonth() + month): months
\* past December are months of the next year
savingsProjectionDate(startDate, year, month) ==
  Date(startDate.year + year + ((startDate.month + month) \div 12),
       (startDate.month + month) % 12)

\* the doubling without the exception for the current year
doubledSavingsEveryBearYear(args, year) ==
  IF args.doubleDownInBearMarkets
     /\ (args.startDate.year + year - 1) % 4 \in {0, 1}
  THEN Mul(args.monthlySavingsAmount, N(2))
  ELSE args.monthlySavingsAmount

\* actualMonthlySavings of the months of projection year `year`
doubledSavings(args, year) ==
  IF args.doubleDownInBearMarkets
     /\ (year > 0 /\ (args.startDate.year + year - 1) % 4 \in {0, 1})
  THEN Mul(args.monthlySavingsAmount, N(2))
  ELSE args.monthlySavingsAmount

\* the body of the month loop
savingsMonth(args, year, month, projectionDate, rows) ==
  SavingsProjection(year, month, doubledSavings(args, year),
    calculateFairValue(projectionDate),
    IF year = 0 THEN calculateFairValue(projectionDate)
    ELSE calculateCyclePrice(args.startDate.year + year, FALSE).price,
    IF Len(rows) = 0 THEN N(0) ELSE rows[Len(rows)].totalBitcoinAccumulated,
    IF Len(rows) = 0 THEN N(0) ELSE rows[Len(rows)].totalCashInvested)

\* the month loop of projection year `year`
RECURSIVE savingsMonths(_, _, _)
savingsMonths(args, year, rows) ==
  IF Len(rows) - 12 * year >= 12
  THEN rows
  ELSE savingsMonths(args, year,
         Append(rows,
                savingsMonth(args, year, Len(rows) - 12 * year,
                             savingsProjectionDate(args.startDate, year,
                                                   Len(rows) - 12 * year),
                             rows)))

SavingsAmountGrid == {N(0), N(1000)}
SavingsYearsGrid == 0..3
StartDateGrid == {Date(2025, 0), Date(2025, 6), Date(2026, 0), Date(2026, 6)}

InitSavings ==
  /\ pc = "start"
  /\ \E a \in SavingsAmountGrid, y \in SavingsYearsGrid, d \in BOOLEAN, s \in StartDateGrid :
       savingsArgs = [monthlySavingsAmount |-> a, yearsToRetirement |-> y,
                      doubleDownInBearMarkets |-> d, startDate |-> s]
  /\ monthlyProjection = <<>>
  /\ validationArgs = None /\ validation = None
  /\ priceDate = None /\ priceBands = None
  /\ context = None /\ decision = None
  /\ bearInput = None /\ bearResult = None /\ bearReference = None
  /\ NoSimulation

\* one iteration of the year loop
SavingsYear ==
  /\ pc = "start"
  /\ Len(monthlyProjection) < 12 * savingsArgs.yearsToRetirement
  /\ monthlyProjection' =
       savingsMonths(savingsArgs, Len(monthlyProjection) \div 12, monthlyProjection)
  /\ UNCHANGED <<pc, savingsArgs, validationArgs, validation, priceDate, priceBands>>
  /\ UNCHANGED <<withdrawalVars, bearVars, simulationVars, chartVars>>

\* the loop condition fails: the projection is returned
ReturnSavings ==
  /\ pc = "start"
  /\ Len(monthlyProjection) >= 12 * savingsArgs.yearsToRetirement
  /\ pc' = "done"
  /\ UNCHANGED <<withdrawalVars, bearVars, simulationVars, chartVars, utilVars>>

NextSavings == SavingsYear \/ ReturnSavings

SpecSavings == InitSavings /\ [][NextSavings]_vars

(***************************************************************************)
(* utils/RetirementCalculations.ts: validateRetirementInputs.  errors is   *)
(* the array of the messages in the order of the pushes.                   *)
(***************************************************************************)
\* errors.push(message) under a condition
pushIf(errors, condition, message) ==
  IF condition THEN Append(errors, message) ELSE errors

\* the validator that stops at the first violation
validateRetirementInputsFirstOnly(bitcoinAmount, cashAmount, annualWithdrawal) ==
  LET errors ==
        IF Lt(bitcoinAmount, N(0)) THEN <<"Bitcoin amount cannot be negative">>
        ELSE IF Lt(cashAmount, N(0)) THEN <<"Cash amount cannot be negative">>
        ELSE IF Le(annualWithdrawal, N(0))
        THEN <<"Annual withdrawal must be greater than zero">>
        ELSE IF Eq(bitcoinAmount, N(0)) /\ Eq(cashAmount, N(0))
        THEN <<"Must have either Bitcoin or cash holdings">>
        ELSE IF Gt(bitcoinAmount, N(1000))
        THEN <<"Bitcoin amount seems unrealistically high (>1000 BTC)">>
        ELSE IF Gt(annualWithdrawal, N(10000000))
        THEN <<"Annual withdrawal seems unrealistically high (>$10M)">>
        ELSE <<>>
  IN  [isValid |-> Len(errors) = 0, errors |-> errors]

validateRetirementInputs(bitcoinAmount, cashAmount, annualWithdrawal) ==
  LET errors ==
        pushIf(pushIf(pushIf(pushIf(pushIf(pushIf(<<>>,
          Lt(bitcoinAmount, N(0)), "Bitcoin amount cannot be negative"),
          Lt(cashAmount, N(0)), "Cash amount cannot be negative"),
          Le(annualWithdrawal, N(0)), "Annual withdrawal must be greater than zero"),
          Eq(bitcoinAmount, N(0)) /\ Eq(cashAmount, N(0)),
            "Must have either Bitcoin or cash holdings"),
          Gt(bitcoinAmount, N(1000)),
            "Bitcoin amount seems unrealistically high (>1000 BTC)"),
          Gt(annualWithdrawal, N(10000000)),
            "Annual withdrawal seems unrealistically high (>$10M)")
  IN  [isValid |-> Len(errors) = 0, errors |-> errors]

\* amounts below, on and above the thresholds, and a NaN
ValidationBitcoinGrid == {N(-1), N(0), Q(1, 2), N(1000), N(1001), NaN}
ValidationCashGrid == {N(-1), N(0), N(100)}
ValidationWithdrawalGrid == {N(-1), N(0), N(50000), N(10000000), N(10000001)}

InitValidation ==
  /\ pc = "start"
  /\ \E b \in ValidationBitcoinGrid, c \in ValidationCashGrid, w \in ValidationWithdrawalGrid :
       validationArgs = [bitcoinAmount |-> b, cashAmount |-> c, annualWithdrawal |-> w]
  /\ validation = None
  /\ savingsArgs = None /\ monthlyProjection = None
  /\ priceDate = None /\ priceBands = None
  /\ context = None /\ decision = None
  /\ bearInput = None /\ bearResult = None /\ bearReference = None
  /\ NoSimulation

ValidateRetirementInputs ==
  /\ pc = "start"
  /\ validation' = validateRetirementInputs(validationArgs.bitcoinAmount,
                                            validationArgs.cashAmount,
                                            validationArgs.annualWithdrawal)
  /\ pc' = "done"
  /\ UNCHANGED <<validationArgs, savingsArgs, monthlyProjection, priceDate, priceBands>>
  /\ UNCHANGED <<withdrawalVars, bearVars, simulationVars, chartVars>>

NextValidation == ValidateRetirementInputs

SpecValidation == InitValidation /\ [][NextValidation]_vars

(***************************************************************************)
(* models/PowerLaw.ts: the three values of the price model for a date.     *)
(* The dates are before the genesis block, where the days since genesis    *)
(* are clamped to 1, and from 2020 to 2090.                                *)
(***************************************************************************)
PriceDateGrid ==
  {Date(1970, 0), Date(2008, 11), Date(2009, 0)}
  \cup {Date(y, 0) : y \in 2020..2090}
  \cup {Date(y, m) : y \in 2025..2030, m \in 1..11}

InitPowerLaw ==
  /\ pc = "start"
  /\ priceDate \in PriceDateGrid
  /\ priceBands = None
  /\ savingsArgs = None /\ monthlyProjection = None
  /\ validationArgs = None /\ validation = None
  /\ context = None /\ decision = None
  /\ bearInput = None /\ bearResult = None /\ bearReference = None
  /\ NoSimulation

CalculateBands ==
  /\ pc = "start"
  /\ priceBands' = [fairValue |-> calculateFairValue(priceDate),
                    floorValue |-> calculateFloorPrice(priceDate),
                    upperBound |-> calculateUpperBound(priceDate)]
  /\ pc' = "done"
  /\ UNCHANGED <<priceDate, savingsArgs, monthlyProjection, validationArgs, validation>>
  /\ UNCHANGED <<withdrawalVars, bearVars, simulationVars, chartVars>>

NextPowerLaw == CalculateBands

SpecPowerLaw == InitPowerLaw /\ [][NextPowerLaw]_vars

(***************************************************************************)
(* Specification of the 50-year simulation.  The inputs are non-negative,  *)
(* as the form's fields require; they hold holdings that last 50 years,    *)
(* holdings that are depleted early, cash above and below the withdrawal   *)
(* and savings plans of up to three years.  Every iteration of a loop of   *)
(* the two functions is a step.                                            *)
(***************************************************************************)
CurrentPriceGrid == {None, N(0), N(100000)}
BitcoinAmountGrid == {N(0), Q(1, 20), Q(1, 10), N(1), N(10)}
CashAmountGrid == {N(0), N(10000), N(120000)}
AnnualWithdrawalGrid == {N(0), N(30000), N(60000)}
YearsUntilRetirementGrid == {0, 3}
\* the years of the chart's points: before, around and 46 to 53 years after
\* the retirement start years
PlanYearGrid == {2020} \cup (2025..2036) \cup (2075..2079)
NoSavingsPlan ==
  [enabled |-> FALSE, monthlySavingsAmount |-> N(1000), yearsToRetirement |-> 2,
   doubleDownInBearMarkets |-> FALSE]
SavingsPlanGrid ==
  {[enabled |-> TRUE, monthlySavingsAmount |-> N(1000), yearsToRetirement |-> 2,
    doubleDownInBearMarkets |-> FALSE],
   [enabled |-> TRUE, monthlySavingsAmount |-> N(1000), yearsToRetirement |-> 3,
    doubleDownInBearMarkets |-> TRUE],
   [enabled |-> TRUE, monthlySavingsAmount |-> N(0), yearsToRetirement |-> 2,
    doubleDownInBearMarkets |-> FALSE],
   [enabled |-> TRUE, monthlySavingsAmount |-> N(1000), yearsToRetirement |-> 0,
    doubleDownInBearMarkets |-> FALSE]}

\* holdings and withdrawals without a savings plan, and savings plans in
\* front of small and of large holdings
InitSimulation ==
  /\ pc = "start"
  /\ \/ /\ \E b \in BitcoinAmountGrid, c \in CashAmountGrid, w \in AnnualWithdrawalGrid :
             retirementInputs = [bitcoinAmount |-> b, cashAmount |-> c,
                                 annualWithdrawal |-> w, yearsUntilRetirement |-> 0]
        /\ monthlySavingsInputs = NoSavingsPlan
     \/ /\ \E b \in {N(0), N(10)}, c \in {N(0), N(10000)}, y \in YearsUntilRetirementGrid :
             retirementInputs = [bitcoinAmount |-> b, cashAmount |-> c,
                                 annualWithdrawal |-> N(30000),
                                 yearsUntilRetirement |-> y]
        /\ monthlySavingsInputs \in SavingsPlanGrid
  /\ \E p \in CurrentPriceGrid : chart = [currentPrice |-> p, currentYear |-> 2026]
  /\ savingsProjection = <<>>
  /\ simulation = <<>>
  /\ loop = None
  /\ planPoint = None
  /\ context = None /\ decision = None
  /\ bearInput = None /\ bearResult = None /\ bearReference = None
  /\ NoUtils

\* one iteration of the year loop of calculateMonthlySavingsProjection
ProjectYear ==
  /\ pc = "start"
  /\ ~noSavingsPlan
  /\ Len(savingsProjection) < 12 * monthlySavingsInputs.yearsToRetirement
  /\ savingsProjection' = projectMonths(Len(savingsProjection) \div 12, savingsProjection)
  /\ UNCHANGED <<pc, retirementInputs, monthlySavingsInputs, chart, simulation, loop>>
  /\ UNCHANGED <<withdrawalVars, bearVars>>
  /\ UNCHANGED <<chartVars, utilVars>>

\* calculateMonthlySavingsProjection returns: [] at once, or the projection
ReturnProjection ==
  /\ pc = "start"
  /\ noSavingsPlan \/ Len(savingsProjection) >= 12 * monthlySavingsInputs.yearsToRetirement
  /\ pc' = "projected"
  /\ UNCHANGED <<simulationVars, withdrawalVars, bearVars>>
  /\ UNCHANGED <<chartVars, utilVars>>

\* simulate50YearWithdrawals returns [] at once
SimulateNothing ==
  /\ pc = "projected"
  /\ nothingToSimulate
  /\ simulation' = <<>>
  /\ pc' = "returned"
  /\ UNCHANGED <<retirementInputs, monthlySavingsInputs, chart, savingsProjection, loop>>
  /\ UNCHANGED <<withdrawalVars, bearVars>>
  /\ UNCHANGED <<chartVars, utilVars>>

\* simulate50YearWithdrawals up to its first loop
StartSimulation ==
  /\ pc = "projected"
  /\ ~nothingToSimulate
  /\ simulation' = <<>>
  /\ loop' = [year |-> 0,
              cumulativeCashInvested |-> N(0),
              remainingBitcoin |-> accumulatedBitcoin,
              remainingCash |-> retirementInputs.cashAmount]
  /\ pc' = IF monthlySavingsInputs.enabled /\ yearsToRetirement > 0
           THEN "accumulating" ELSE "withdrawing"
  /\ UNCHANGED <<retirementInputs, monthlySavingsInputs, chart, savingsProjection>>
  /\ UNCHANGED <<withdrawalVars, bearVars>>
  /\ UNCHANGED <<chartVars, utilVars>>

\* one iteration of the accumulation loop: a row for a year that has savings
AccumulationYear ==
  /\ pc = "accumulating"
  /\ loop.year < yearsToRetirement
  /\ IF yearlyAggregation(chart.currentYear + loop.year) = None
     THEN /\ simulation' = simulation
          /\ loop' = [loop EXCEPT !.year = @ + 1]
     ELSE /\ simulation' =
               Append(simulation,
                      accumulationYear(loop.year, chart.currentYear + loop.year,
                                       yearlyAggregation(chart.currentYear + loop.year)))
          /\ loop' = [loop EXCEPT
                        !.year = @ + 1,
                        !.cumulativeCashInvested =
                           simulation'[Len(simulation')].totalCashInvested]
  /\ UNCHANGED <<pc, retirementInputs, monthlySavingsInputs, chart, savingsProjection>>
  /\ UNCHANGED <<withdrawalVars, bearVars>>
  /\ UNCHANGED <<chartVars, utilVars>>

\* the accumulation loop is left and the withdrawal loop is entered
StartWithdrawals ==
  /\ pc = "accumulating"
  /\ loop.year >= yearsToRetirement
  /\ loop' = [loop EXCEPT
                !.year = 0,
                !.cumulativeCashInvested =
                   IF Eq(@, N(0)) THEN totalCashInvested ELSE @]
  /\ pc' = "withdrawing"
  /\ UNCHANGED <<retirementInputs, monthlySavingsInputs, chart, savingsProjection, simulation>>
  /\ UNCHANGED <<withdrawalVars, bearVars>>
  /\ UNCHANGED <<chartVars, utilVars>>

\* one iteration of the withdrawal loop: the row is pushed, and the loop is
\* left when the holdings are depleted
WithdrawalYear ==
  /\ pc = "withdrawing"
  /\ loop.year < WithdrawalYears
  /\ simulation' =
       Append(simulation,
              withdrawalYear(loop.year, Date(retirementStartYear + loop.year, 0)))
  /\ loop' = [loop EXCEPT
                !.remainingBitcoin = simulation'[Len(simulation')].remainingBitcoin,
                !.remainingCash = simulation'[Len(simulation')].remainingCash,
                !.year = IF simulationDepleted(simulation'[Len(simulation')].remainingBitcoin,
                                               simulation'[Len(simulation')].remainingCash)
                         THEN @ ELSE @ + 1]
  /\ pc' = IF simulationDepleted(simulation'[Len(simulation')].remainingBitcoin,
                                 simulation'[Len(simulation')].remainingCash)
           THEN "returned" ELSE "withdrawing"
  /\ UNCHANGED <<retirementInputs, monthlySavingsInputs, chart, savingsProjection>>
  /\ UNCHANGED <<withdrawalVars, bearVars>>
  /\ UNCHANGED <<chartVars, utilVars>>

\* the loop condition fails: simulate50YearWithdrawals returns the ledger
ReturnSimulation ==
  /\ pc = "withdrawing"
  /\ loop.year >= WithdrawalYears
  /\ pc' = "returned"
  /\ UNCHANGED <<simulationVars, withdrawalVars, bearVars>>
  /\ UNCHANGED <<chartVars, utilVars>>

\* the render computes a point of the plan line from the ledger's anchor
ChartPlanPoint ==
  /\ pc = "returned"
  /\ \E year \in PlanYearGrid : planPoint' = chartPointWithPlan(year)
  /\ pc' = "charted"
  /\ UNCHANGED <<simulationVars, withdrawalVars, bearVars, utilVars>>

NextSimulation ==
  \/ ProjectYear
  \/ ReturnProjection
  \/ SimulateNothing
  \/ StartSimulation
  \/ AccumulationYear
  \/ StartWithdrawals
  \/ WithdrawalYear
  \/ ReturnSimulation
  \/ ChartPlanPoint

SpecSimulation == InitSimulation /\ [][NextSimulation]_vars

\* what the decision takes out, in dollars
TotalUsed ==
  Add(decision.useCashAmount,
      Mul(decision.useBitcoinAmount, context.currentBitcoinPrice))

\* what the caller holds, in dollars
TotalAssets ==
  Add(context.availableCash,
      Mul(context.availableBitcoin, context.currentBitcoinPrice))

(***************************************************************************)
(* Properties of calculateWithdrawal                                       *)
(***************************************************************************)
NonNegativeInputs ==
  /\ Ge(context.availableCash, N(0))
  /\ Ge(context.availableBitcoin, N(0))
  /\ Ge(context.withdrawalNeeded, N(0))

\* C1: with emergencyMode false, in every band, for non-negative inputs whose
\* assets suffice (availableCash + availableBitcoin * price >= withdrawalNeeded)
\* the decision takes out exactly the need:
\* useCashAmount + useBitcoinAmount * price = withdrawalNeeded.
C1_FullyFundedWhenAssetsSuffice ==
  (pc = "done" /\ ~context.emergencyMode /\ NonNegativeInputs
     /\ Ge(TotalAssets, context.withdrawalNeeded))
    => Eq(TotalUsed, context.withdrawalNeeded)

\* C2: for non-negative inputs, in every band and in emergency mode, the decision
\* stays within the holdings: 0 <= useCashAmount <= availableCash and
\* 0 <= useBitcoinAmount <= availableBitcoin.
C2_DecisionWithinHoldings ==
  (pc = "done" /\ NonNegativeInputs)
    => /\ Le(N(0), decision.useCashAmount)
       /\ Le(decision.useCashAmount, context.availableCash)
       /\ Le(N(0), decision.useBitcoinAmount)
       /\ Le(decision.useBitcoinAmount, context.availableBitcoin)

\* C3: when assets are insufficient (availableCash + availableBitcoin * price <
\* withdrawalNeeded, non-negative inputs) the decision of every band exhausts both
\* holdings exactly: useCashAmount = availableCash and
\* useBitcoinAmount = availableBitcoin.
C3_InsufficientExhaustsBoth ==
  (pc = "done" /\ ~context.emergencyMode /\ NonNegativeInputs
     /\ Lt(TotalAssets, context.withdrawalNeeded))
    => /\ Eq(decision.useCashAmount, context.availableCash)
       /\ Eq(decision.useBitcoinAmount, context.availableBitcoin)

Ratio == Div(context.currentBitcoinPrice, calculateFairValue(context.currentDate))

\* C4: recommendedAction is a total function of (emergencyMode, ratio), ratio =
\* price / fairValue(currentDate): EMERGENCY_ONLY iff emergencyMode; otherwise
\* HODL_BITCOIN iff ratio <= 0.8, BALANCED iff 0.8 < ratio <= 1.2, SPEND_BITCOIN iff
\* ratio > 1.2.  A ratio equal to a threshold (0.5, 0.8, 1.2, 2.5, 5.0) is handled
\* by the band below it, and for ratio > 2.5 useCashAmount is 0.
C4_ActionIsFunctionOfModeAndRatio ==
  pc = "done" =>
    /\ decision.recommendedAction
         \in {"EMERGENCY_ONLY", "HODL_BITCOIN", "BALANCED", "SPEND_BITCOIN"}
    /\ decision.recommendedAction = "EMERGENCY_ONLY" <=> context.emergencyMode
    /\ ~context.emergencyMode =>
         /\ decision.recommendedAction = "HODL_BITCOIN" <=> Le(Ratio, Q(8, 10))
         /\ decision.recommendedAction = "BALANCED"
              <=> (Gt(Ratio, Q(8, 10)) /\ Le(Ratio, Q(12, 10)))
         /\ decision.recommendedAction = "SPEND_BITCOIN" <=> Gt(Ratio, Q(12, 10))
         /\ Eq(Ratio, Q(5, 10))
              => decision.strategy
                   \in {"Cash Only (Extreme HODL)", "Cash First, Minimal Bitcoin"}
         /\ Eq(Ratio, Q(8, 10))
              => decision.strategy
                   \in {"Mostly Cash (80%+)", "Cash Only", "Cash First, Some Bitcoin"}
         /\ Eq(Ratio, Q(12, 10)) => decision.strategy = "Balanced Withdrawal"
         /\ Eq(Ratio, Q(25, 10))
              => decision.strategy
                   \in {"Bitcoin Only (Take Profits)", "Mostly Bitcoin (80%+)"}
         /\ Eq(Ratio, N(5)) => decision.strategy = "Bitcoin Only (Bubble Profits)"
         /\ Gt(Ratio, Q(25, 10)) => Eq(decision.useCashAmount, N(0))

\* a decision taken exactly on the 2.5 threshold with cash at hand: the
\* overvalued band handles it and mixes cash with bitcoin
C4_Witness ==
  /\ pc = "done"
  /\ ~context.emergencyMode
  /\ Eq(Ratio, Q(25, 10))
  /\ decision.strategy = "Mostly Bitcoin (80%+)"
  /\ Gt(decision.useCashAmount, N(0))

(***************************************************************************)
(* Properties of testBearMarketSurvival                                    *)
(***************************************************************************)
SameResult(a, b) ==
  /\ a.passes = b.passes
  /\ Eq(a.remainingBitcoin, b.remainingBitcoin)
  /\ Eq(a.remainingCash, b.remainingCash)

BearTested == pc \in {"tested", "done"}

BearShortCircuits ==
  Le(bearInput.bitcoinHoldings, N(0)) \/ Le(bearInput.annualWithdrawal, N(0))

\* C5: whenever bitcoinHoldings <= 0 or annualWithdrawal <= 0, for any price, year
\* and cash (large cash included), testBearMarketSurvival returns exactly
\* {passes: false, remainingBitcoin: 0, remainingCash: 0}: no year of the stress
\* sequence has touched the balances.
C5_ShortCircuitOnInvalidInput ==
  (BearTested /\ BearShortCircuits)
    => /\ bearResult.passes = FALSE
       /\ Eq(bearResult.remainingBitcoin, N(0))
       /\ Eq(bearResult.remainingCash, N(0))

\* invalid only by having no bitcoin, with cash for far more than 20 years
C5_Witness ==
  /\ BearTested
  /\ Eq(bearInput.bitcoinHoldings, N(0))
  /\ Gt(bearInput.annualWithdrawal, N(0))
  /\ Ge(bearInput.cashHoldings, Mul(N(23), bearInput.annualWithdrawal))
  /\ bearResult.passes = FALSE
  /\ Eq(bearResult.remainingCash, N(0))

\* C6: testBearMarketSurvival runs three forced cash-first years (floor, floor,
\* recovery, all at 1 January of `year`) before the runway check, so for every
\* input its (passes, remainingBitcoin, remainingCash) equals the result of the
\* three-step reference bearMarketTest.
C6_EqualsThreeYearReference ==
  pc = "done" => SameResult(bearResult, bearReference)

\* the balances of the input after the forced years of testBearMarketSurvival,
\* recomputed year by year
ForcedYear1 ==
  cashFirstYearNoStop(bearInput.bitcoinHoldings, MathMax(N(0), bearInput.cashHoldings),
                      bearInput.annualWithdrawal,
                      calculateFloorPrice(Date(bearInput.year, 0)))
ForcedYear2 ==
  cashFirstYearNoStop(ForcedYear1.remainingBitcoin, ForcedYear1.remainingCash,
                      bearInput.annualWithdrawal,
                      bearRecoveryPrice(calculateFairValue(Date(bearInput.year, 0)),
                                        calculateFloorPrice(Date(bearInput.year, 0))))
BitcoinWentNegative ==
  Lt(ForcedYear1.remainingBitcoin, N(0)) \/ Lt(ForcedYear2.remainingBitcoin, N(0))

RemainingValueAtFair ==
  Add(Mul(bearResult.remainingBitcoin, calculateFairValue(Date(bearInput.year, 0))),
      bearResult.remainingCash)

\* C7: when testBearMarketSurvival does not short-circuit and bitcoin never goes
\* negative in the forced years, passes is true iff
\* remainingBitcoin * fairValue(year) + remainingCash >= 20 * annualWithdrawal;
\* exactly 20 years of runway passes.
C7_PassesIffTwentyYearRunway ==
  (BearTested /\ ~BearShortCircuits /\ ~BitcoinWentNegative)
    => (bearResult.passes
          <=> Ge(RemainingValueAtFair, Mul(N(20), bearInput.annualWithdrawal)))

\* exactly 20 years of runway left after bitcoin was sold in the forced years
C7_Witness ==
  /\ BearTested /\ ~BearShortCircuits /\ ~BitcoinWentNegative
  /\ Eq(RemainingValueAtFair, Mul(N(20), bearInput.annualWithdrawal))
  /\ Lt(bearResult.remainingBitcoin, bearInput.bitcoinHoldings)
  /\ bearResult.passes

\* C8: for every input, negative cashHoldings included, remainingBitcoin >= 0 and
\* remainingCash >= 0; negative cash is treated as 0; and when a sale in a forced
\* year would make bitcoin negative the result is passes = false with
\* remainingBitcoin = 0 and remainingCash = 0.
C8_ResultNeverNegative ==
  BearTested =>
    /\ Ge(bearResult.remainingBitcoin, N(0))
    /\ Ge(bearResult.remainingCash, N(0))
    /\ Lt(bearInput.cashHoldings, N(0))
         => SameResult(bearResult,
                       testBearMarketSurvival(bearInput.bitcoinPrice, bearInput.year,
                                              bearInput.bitcoinHoldings,
                                              bearInput.annualWithdrawal, N(0)))
    /\ (~BearShortCircuits /\ BitcoinWentNegative)
         => /\ bearResult.passes = FALSE
            /\ Eq(bearResult.remainingBitcoin, N(0))
            /\ Eq(bearResult.remainingCash, N(0))

\* negative cash, and the second forced year's sale overdraws the bitcoin
C8_Witness ==
  /\ BearTested /\ ~BearShortCircuits
  /\ Lt(bearInput.cashHoldings, N(0))
  /\ Ge(ForcedYear1.remainingBitcoin, N(0))
  /\ Lt(ForcedYear2.remainingBitcoin, N(0))
  /\ bearResult.passes = FALSE
  /\ Eq(bearResult.remainingBitcoin, N(0))

(***************************************************************************)
(* The ledger of simulate50YearWithdrawals                                 *)
(***************************************************************************)
\* the chart component is mounted
Simulating == retirementInputs # None

\* the indexes of the withdrawal rows and of the accumulation rows
withdrawalRows == {i \in DOMAIN simulation : simulation[i].phase # "ACCUMULATION"}
accumulationRows == {i \in DOMAIN simulation : simulation[i].phase = "ACCUMULATION"}

\* remainingBitcoin <= 0 && remainingCash <= 0 in a row
RowDepleted(row) == Le(row.remainingBitcoin, N(0)) /\ Le(row.remainingCash, N(0))

NonNegativeStart ==
  /\ Ge(retirementInputs.bitcoinAmount, N(0))
  /\ Ge(retirementInputs.cashAmount, N(0))
  /\ Gt(retirementInputs.annualWithdrawal, N(0))

\* C9: in every ledger that simulate50YearWithdrawals builds from
\* non-negative starting bitcoin and cash and a positive annual withdrawal,
\* every row, accumulation or withdrawal, has remainingBitcoin >= 0 and
\* remainingCash >= 0, after any number of simulated years.
C9_LedgerNeverNegative ==
  (Simulating /\ NonNegativeStart) =>
    \A i \in DOMAIN simulation :
      /\ Ge(simulation[i].remainingBitcoin, N(0))
      /\ Ge(simulation[i].remainingCash, N(0))

\* a ledger with accumulation rows whose last withdrawal would have taken
\* more bitcoin than was left
C9_Witness ==
  /\ Simulating /\ NonNegativeStart
  /\ pc = "returned"
  /\ accumulationRows # {}
  /\ \E i \in withdrawalRows :
       /\ simulation[i].withdrawalSource.depleted
       /\ Gt(simulation[i].bitcoinSold, N(0))
       /\ Eq(simulation[i].remainingBitcoin, N(0))

\* the ledger part of C10
LedgerStopsAtDepletion ==
  Simulating =>
    /\ Cardinality(withdrawalRows) <= WithdrawalYears
    /\ Cardinality(accumulationRows) <= IntMax(yearsToRetirement, 0)
    /\ \A i \in DOMAIN simulation : i < Len(simulation) => ~RowDepleted(simulation[i])
    /\ (pc = "returned" /\ Len(simulation) > 0
        /\ Cardinality(withdrawalRows) < WithdrawalYears)
         => RowDepleted(simulation[Len(simulation)])

\* C10: the withdrawal phase of simulate50YearWithdrawals always terminates,
\* with at most 50 withdrawal rows after at most yearsToRetirement
\* accumulation rows: every step of the withdrawal loop returns the ledger
\* or adds one withdrawal row to it, and there are never more than 50.  A
\* ledger that is returned with fewer than 50 withdrawal rows ends in a row
\* with remainingBitcoin <= 0 and remainingCash <= 0, and no row follows a
\* row in which both are <= 0.
C10_TerminatesWithinFiftyRows ==
  /\ LedgerStopsAtDepletion
  /\ [][Simulating =>
          /\ LedgerStopsAtDepletion'
          /\ pc = "withdrawing" =>
               \/ pc' = "returned"
               \/ /\ Cardinality(withdrawalRows') = Cardinality(withdrawalRows) + 1
                  /\ Len(simulation') = Len(simulation) + 1]_vars

\* a ledger that was cut short after several withdrawal years
C10_Witness ==
  /\ Simulating
  /\ pc = "returned"
  /\ Cardinality(withdrawalRows) > 2
  /\ Cardinality(withdrawalRows) < WithdrawalYears
  /\ RowDepleted(simulation[Len(simulation)])

\* C11: the year-0 row of the withdrawal phase (the retirement start year)
\* performs no withdrawal: its cashUsed and bitcoinSold are 0 and its
\* remainingBitcoin and remainingCash are the balances at the start of
\* retirement; withdrawals begin with year 1.
C11_RetirementStartRowWithdrawsNothing ==
  Simulating =>
    \A i \in withdrawalRows :
      simulation[i].phase = "RETIREMENT START" =>
        /\ Eq(simulation[i].cashUsed, N(0))
        /\ Eq(simulation[i].bitcoinSold, N(0))
        /\ Eq(simulation[i].remainingBitcoin, accumulatedBitcoin)
        /\ Eq(simulation[i].remainingCash, retirementInputs.cashAmount)

\* C12: depletion is terminal: a withdrawal row whose bitcoin was clamped to
\* zero and that is tagged DEPLETED is the last row of the ledger.
C12_DepletedRowIsLast ==
  Simulating =>
    \A i \in withdrawalRows :
      (simulation[i].withdrawalSource.depleted
       /\ Eq(simulation[i].remainingBitcoin, N(0)))
        => i = Len(simulation)

(***************************************************************************)
(* The cycle prices of the withdrawal phase and of the chart's plan line   *)
(***************************************************************************)
\* the offset of withdrawal row i from the retirement start year
RowOffset(i) == i - Cardinality(accumulationRows) - 1

\* the phase of offset k as the claims state it
PhaseAt(k) ==
  IF k = 0 \/ k = 1 THEN "floor"
  ELSE IF k = 2 THEN "recovery"
  ELSE <<"floor", "recovery", "bull", "peak">>[((k - 3) % 4) + 1]

\* the price of a phase in a calendar year as the claims state it
PriceAt(phase, fair) ==
  CASE phase = "floor" -> Mul(Q(42, 100), fair)
    [] phase = "recovery" ->
         Add(Mul(Q(42, 100), fair),
             Mul(Q(75, 100), Sub(fair, Mul(Q(42, 100), fair))))
    [] phase = "bull" -> Add(fair, Mul(Q(7, 10), Sub(Mul(N(2), fair), fair)))
    [] phase = "peak" -> Add(fair, Mul(Q(3, 10), Sub(Mul(N(2), fair), fair)))

CyclePhaseLabel ==
  [floor |-> "Deep Bear (Floor)", recovery |-> "Bear Market Recovery",
   bull |-> "Bull Market", peak |-> "Bull Peak & Correction"]

\* C13: the withdrawal-phase price for year offset k from the retirement
\* start year is the floor for k = 0 and k = 1, floor + 0.75 (fair - floor)
\* for k = 2 and, for k >= 3, by (k - 3) mod 4: floor, recovery,
\* fair + 0.7 (upper - fair), fair + 0.3 (upper - fair); floor, fair and
\* upper are those of calendar year anchor + k, and the phase at k >= 3
\* depends on (k - 3) mod 4 only.
C13_WithdrawalPhasePrice ==
  Simulating =>
    \A i \in withdrawalRows :
      /\ simulation[i].year = retirementStartYear + RowOffset(i)
      /\ Eq(simulation[i].fairValue,
            calculateFairValue(Date(retirementStartYear + RowOffset(i), 0)))
      /\ Eq(simulation[i].bitcoinPrice,
            PriceAt(PhaseAt(RowOffset(i)), simulation[i].fairValue))
      /\ RowOffset(i) >= 3 =>
           simulation[i].cyclePhase = CyclePhaseLabel[PhaseAt(RowOffset(i))]

\* a ledger that starts after the current year and has gone through the
\* two floor years, the recovery year and more than one 4-year cycle
C13_Witness ==
  /\ Simulating
  /\ retirementStartYear > chart.currentYear
  /\ Cardinality(withdrawalRows) >= 11
  /\ \E i \in withdrawalRows :
       /\ RowOffset(i) = 10
       /\ simulation[i].cyclePhase = "Bull Peak & Correction"

\* the price that the withdrawal loop uses for year index k
LedgerPriceAt(k) ==
  withdrawalPhasePrice(k, calculateFairValue(Date(retirementStartYear + k, 0)),
                       calculateFloorPrice(Date(retirementStartYear + k, 0)),
                       calculateUpperBound(Date(retirementStartYear + k, 0)))

Charted == Simulating /\ planPoint # None

\* C14: getChartPlanPriceForYear(anchor + k) equals the price that the
\* withdrawal simulation uses for year index k with the same anchor, for
\* every k >= 0, and is null for every k < 0.
C14_ChartPlanAgreesWithLedger ==
  Charted =>
    IF planPoint.year < retirementStartYear
    THEN planPoint.planPrice = None
    ELSE /\ planPoint.planPrice # None
         /\ Eq(planPoint.planPrice, LedgerPriceAt(planPoint.year - retirementStartYear))
         /\ \A i \in withdrawalRows :
              simulation[i].year = planPoint.year
                => Eq(planPoint.planPrice, simulation[i].bitcoinPrice)

\* a point of the plan line in a peak year that the ledger has a row for
C14_Witness ==
  /\ Charted
  /\ planPoint.year - retirementStartYear = 6
  /\ planPoint.planPrice # None
  /\ \E i \in withdrawalRows :
       /\ simulation[i].year = planPoint.year
       /\ simulation[i].cyclePhase = "Bull Peak & Correction"

\* the price is within the band of the calendar year and on its phase's
\* side of the fair value
InBandOfPhase(price, phase, year) ==
  /\ Ge(price, calculateFloorPrice(Date(year, 0)))
  /\ Le(price, calculateUpperBound(Date(year, 0)))
  /\ phase \in {"floor", "recovery"} => Lt(price, calculateFairValue(Date(year, 0)))
  /\ phase \in {"bull", "peak"} => Gt(price, calculateFairValue(Date(year, 0)))

\* C15: for every anchor year and every offset k >= 0, k = 49 and k = 50
\* included, the cycle price lies within the band of its calendar year,
\* floor <= price <= upper; it is strictly below fair value in the floor and
\* recovery phases and strictly above it in the bull and peak phases, and
\* the fallback 'Fair Value' branch is never selected.
C15_CyclePriceWithinBand ==
  Simulating =>
    /\ \A i \in withdrawalRows :
         /\ InBandOfPhase(simulation[i].bitcoinPrice, PhaseAt(RowOffset(i)),
                          simulation[i].year)
         /\ simulation[i].cyclePhase # "Fair Value"
    /\ (planPoint # None /\ planPoint.planPrice # None) =>
         InBandOfPhase(planPoint.planPrice,
                       PhaseAt(planPoint.year - chartRetirementStartYear),
                       planPoint.year)

\* a ledger of 50 withdrawal rows, the last one at offset 49, and the point
\* of the plan line at offset 50
C15_Witness ==
  /\ Charted
  /\ Cardinality(withdrawalRows) = WithdrawalYears
  /\ RowOffset(Len(simulation)) = 49
  /\ planPoint.year - chartRetirementStartYear = 50
  /\ planPoint.planPrice # None

NonNegativeYears ==
  /\ retirementInputs.yearsUntilRetirement >= 0
  /\ monthlySavingsInputs.yearsToRetirement >= 0

\* the retirement start year as the claim states it
StartYearAsSpecified ==
  IF monthlySavingsInputs.enabled
  THEN chart.currentYear + IntMax(retirementInputs.yearsUntilRetirement,
                                  monthlySavingsInputs.yearsToRetirement)
  ELSE chart.currentYear + retirementInputs.yearsUntilRetirement

\* C16: the retirement start year of the 50-year simulation, of the chart's
\* plan line and of the retirement status evaluation is
\* currentYear + max(yearsUntilRetirement, yearsToRetirement) when monthly
\* savings are enabled and currentYear + yearsUntilRetirement when they are
\* disabled; for non-negative inputs the three places compute the same
\* year, that of the getRetirementStartYear reference of the test: the
\* ledger's first withdrawal row is of that year and the plan line is null
\* exactly before it.
C16_RetirementStartYearAgrees ==
  (Simulating /\ NonNegativeYears) =>
    /\ retirementStartYear = StartYearAsSpecified
    /\ chartRetirementStartYear = StartYearAsSpecified
    /\ evaluationYear = StartYearAsSpecified
    /\ getRetirementStartYear(chart.currentYear, retirementInputs.yearsUntilRetirement,
                              monthlySavingsInputs.enabled,
                              monthlySavingsInputs.yearsToRetirement)
         = StartYearAsSpecified
    /\ \A i \in withdrawalRows :
         simulation[i].phase = "RETIREMENT START"
           => simulation[i].year = StartYearAsSpecified
    /\ planPoint # None =>
         (planPoint.planPrice = None <=> planPoint.year < StartYearAsSpecified)

\* savings are disabled while the plan's years exceed the years until
\* retirement: the ledger and the plan line both start in the current year
C16_Witness ==
  /\ Charted /\ NonNegativeYears
  /\ ~monthlySavingsInputs.enabled
  /\ monthlySavingsInputs.yearsToRetirement > retirementInputs.yearsUntilRetirement
  /\ Len(simulation) > 0
  /\ simulation[1].phase = "RETIREMENT START"
  /\ planPoint.year = chart.currentYear
  /\ planPoint.planPrice # None

(***************************************************************************)
(* utils/calculateMonthlySavingsProjection                                 *)
(***************************************************************************)
Projecting == savingsArgs # None

\* the sum of q[lo] .. q[hi]
RECURSIVE SumRange(_, _, _)
SumRange(q, lo, hi) ==
  IF lo > hi THEN N(0)
  ELSE IF lo = hi THEN q[lo]
  ELSE Add(SumRange(q, lo, (lo + hi) \div 2), SumRange(q, (lo + hi) \div 2 + 1, hi))

Contributions == [i \in DOMAIN monthlyProjection |-> monthlyProjection[i].monthlySavingsAmount]
Purchases == [i \in DOMAIN monthlyProjection |-> monthlyProjection[i].bitcoinPurchased]

\* C17: calculateMonthlySavingsProjection returns exactly
\* 12 x yearsToRetirement rows in (year, month) order, an empty sequence
\* when years = 0, and in every row totalCashInvested and
\* totalBitcoinAccumulated are the sums of monthlySavingsAmount and of
\* bitcoinPurchased over that row and all earlier rows; with
\* monthlySavingsAmount = 0 every bitcoinPurchased and every total is 0.
C17_ProjectionRowsAndRunningTotals ==
  Projecting =>
    /\ pc = "done" => Len(monthlyProjection) = 12 * savingsArgs.yearsToRetirement
    /\ \A i \in DOMAIN monthlyProjection :
         /\ monthlyProjection[i].year = ((i - 1) \div 12) + 1
         /\ monthlyProjection[i].month = ((i - 1) % 12) + 1
         /\ Eq(monthlyProjection[i].totalCashInvested, SumRange(Contributions, 1, i))
         /\ Eq(monthlyProjection[i].totalBitcoinAccumulated, SumRange(Purchases, 1, i))
         /\ Eq(savingsArgs.monthlySavingsAmount, N(0)) =>
              /\ Eq(monthlyProjection[i].bitcoinPurchased, N(0))
              /\ Eq(monthlyProjection[i].totalBitcoinAccumulated, N(0))
              /\ Eq(monthlyProjection[i].totalCashInvested, N(0))

\* a returned projection of three years with a doubled year in it, started
\* in the middle of a year
C17_Witness ==
  /\ Projecting
  /\ pc = "done"
  /\ savingsArgs.yearsToRetirement = 3
  /\ savingsArgs.startDate.month > 0
  /\ Len(monthlyProjection) = 36
  /\ Gt(monthlyProjection[36].totalCashInvested, N(36000))
  /\ Gt(monthlyProjection[36].totalBitcoinAccumulated, monthlyProjection[35].totalBitcoinAccumulated)

\* the calendar year of projection year y is a bear-phase year
BearPhaseYear(y) == (savingsArgs.startDate.year + y - 1) % 4 \in {0, 1}

\* the price of a row is the floor or the recovery price of calendar year
FloorOrRecoveryPrice(price, calendarYear) ==
  \/ Eq(price, calculateFloorPrice(Date(calendarYear, 0)))
  \/ Eq(price, Add(calculateFloorPrice(Date(calendarYear, 0)),
                   Mul(Q(75, 100), Sub(calculateFairValue(Date(calendarYear, 0)),
                                       calculateFloorPrice(Date(calendarYear, 0))))))

\* C18: the contribution of a month in projection year y (0-based) is
\* 2 x monthlySavingsAmount if and only if doubleDownInBearMarkets is true,
\* y > 0, and the calendar year startYear + y is a bear-phase year
\* ((startYear + y - 1) mod 4 in {0, 1}), which is when the price used that
\* year is the floor or the recovery price; in every other month, and
\* always in year 0, it is monthlySavingsAmount.
C18_DoublingInBearYears ==
  Projecting =>
    \A i \in DOMAIN monthlyProjection :
      /\ Eq(monthlyProjection[i].monthlySavingsAmount,
            IF savingsArgs.doubleDownInBearMarkets
               /\ monthlyProjection[i].year - 1 > 0
               /\ BearPhaseYear(monthlyProjection[i].year - 1)
            THEN Mul(N(2), savingsArgs.monthlySavingsAmount)
            ELSE savingsArgs.monthlySavingsAmount)
      /\ monthlyProjection[i].year - 1 > 0 =>
           (BearPhaseYear(monthlyProjection[i].year - 1)
              <=> FloorOrRecoveryPrice(monthlyProjection[i].bitcoinCyclePrice,
                                       savingsArgs.startDate.year
                                       + monthlyProjection[i].year - 1))
      /\ monthlyProjection[i].year = 1 =>
           Eq(monthlyProjection[i].monthlySavingsAmount, savingsArgs.monthlySavingsAmount)

\* a projection from 2025 on with doubling: 2025 is a bear-phase year but
\* the current one, 2026 is doubled, 2027 is not
C18_Witness ==
  /\ Projecting
  /\ pc = "done"
  /\ savingsArgs.doubleDownInBearMarkets
  /\ savingsArgs.startDate.year = 2025
  /\ Len(monthlyProjection) = 36
  /\ Eq(monthlyProjection[1].monthlySavingsAmount, N(1000))
  /\ Eq(monthlyProjection[13].monthlySavingsAmount, N(2000))
  /\ Eq(monthlyProjection[25].monthlySavingsAmount, N(1000))

(***************************************************************************)
(* validateRetirementInputs                                                *)
(***************************************************************************)
Validated == validation # None

\* the message is in the list of errors
Reported(message) == \E i \in DOMAIN validation.errors : validation.errors[i] = message

\* the six conditions as the claim states them, with their messages
Violations ==
  {<<Lt(validationArgs.bitcoinAmount, N(0)), "Bitcoin amount cannot be negative">>,
   <<Lt(validationArgs.cashAmount, N(0)), "Cash amount cannot be negative">>,
   <<Le(validationArgs.annualWithdrawal, N(0)),
     "Annual withdrawal must be greater than zero">>,
   <<Eq(validationArgs.bitcoinAmount, N(0)) /\ Eq(validationArgs.cashAmount, N(0)),
     "Must have either Bitcoin or cash holdings">>,
   <<Gt(validationArgs.bitcoinAmount, N(1000)),
     "Bitcoin amount seems unrealistically high (>1000 BTC)">>,
   <<Gt(validationArgs.annualWithdrawal, N(10000000)),
     "Annual withdrawal seems unrealistically high (>$10M)">>}

\* C19: validateRetirementInputs never throws and collects all violations:
\* it returns a result for every input, its error list contains each
\* message exactly when its condition holds (bitcoinAmount < 0;
\* cashAmount < 0; annualWithdrawal <= 0; bitcoinAmount = 0 and
\* cashAmount = 0; bitcoinAmount > 1000; annualWithdrawal > 10,000,000),
\* several at once when several hold, and isValid is true if and only if
\* the list is empty.
C19_ValidatorCollectsAllViolations ==
  /\ (validationArgs # None /\ pc = "done") => Validated
  /\ Validated =>
       /\ \A v \in Violations : Reported(v[2]) <=> v[1]
       /\ Len(validation.errors) = Cardinality({v \in Violations : v[1]})
       /\ validation.isValid <=> validation.errors = <<>>

\* three violations at once: negative bitcoin, negative cash and a withdrawal
\* above the limit
C19_Witness ==
  /\ Validated
  /\ ~validation.isValid
  /\ Len(validation.errors) = 3
  /\ Reported("Bitcoin amount cannot be negative")
  /\ Reported("Cash amount cannot be negative")
  /\ Reported("Annual withdrawal seems unrealistically high (>$10M)")

(***************************************************************************)
(* BitcoinPowerLaw                                                         *)
(***************************************************************************)
\* C20: for every date, before or after the genesis block, the price model
\* satisfies 0 < floor < fair < upper with floor = 0.42 x fair and
\* upper = 2 x fair, so upper / floor is the same constant for all dates.
C20_BandsOrderedAndProportional ==
  priceBands # None =>
    /\ Lt(N(0), priceBands.floorValue)
    /\ Lt(priceBands.floorValue, priceBands.fairValue)
    /\ Lt(priceBands.fairValue, priceBands.upperBound)
    /\ Eq(priceBands.floorValue, Mul(Q(42, 100), priceBands.fairValue))
    /\ Eq(priceBands.upperBound, Mul(N(2), priceBands.fairValue))
    /\ Eq(Div(priceBands.upperBound, priceBands.floorValue), Q(100, 21))

\* the bands of a date before the genesis block
C20_Witness ==
  /\ priceBands # None
  /\ priceDate.year < 2009
  /\ Eq(priceBands.fairValue, POWER_LAW_A)
  /\ Lt(priceBands.floorValue, priceBands.fairValue)

\* C21: fair value is monotonically non-decreasing in the date:
\* getDaysSinceGenesis returns max(1, elapsed days), so every date at or
\* before one day after the genesis block yields the same smallest positive
\* fair value, and for d2 > d1 fair(d2) >= fair(d1), strictly greater once
\* both are more than one day after it.
C21_FairValueMonotone ==
  priceBands # None =>
    /\ Ge(getDaysSinceGenesis(priceDate), N(1))
    /\ Gt(priceBands.fairValue, N(0))
    /\ Ge(priceBands.fairValue, POWER_LAW_A)
    /\ Eq(getDaysSinceGenesis(priceDate), N(1)) => Eq(priceBands.fairValue, POWER_LAW_A)
    /\ \A d1 \in PriceDateGrid :
         Lt(getTime(d1), getTime(priceDate)) =>
           /\ Le(calculateFairValue(d1), priceBands.fairValue)
           /\ Gt(getDaysSinceGenesis(d1), N(1))
                => Lt(calculateFairValue(d1), priceBands.fairValue)

\* the fair value of a month of 2030, above that of the month before it and
\* above the value of the dates before the genesis block
C21_Witness ==
  /\ priceBands # None
  /\ priceDate = Date(2030, 5)
  /\ Gt(priceBands.fairValue, calculateFairValue(Date(2030, 4)))
  /\ Gt(priceBands.fairValue, calculateFairValue(Date(2008, 11)))
  /\ Eq(calculateFairValue(Date(2008, 11)), calculateFairValue(Date(1970, 0)))

(***************************************************************************)
(* The rows of the ledger of simulate50YearWithdrawals                     *)
(***************************************************************************)
\* C22: each withdrawal row that is not tagged DEPLETED is fully funded:
\* cashUsed + bitcoinSold x bitcoinPrice equals the row's annualWithdrawal.
C22_UntaggedRowsFullyFunded ==
  Simulating =>
    \A i \in withdrawalRows :
      ~simulation[i].withdrawalSource.depleted =>
        Eq(Add(simulation[i].cashUsed,
               Mul(simulation[i].bitcoinSold, simulation[i].bitcoinPrice)),
           simulation[i].annualWithdrawal)

\* the recommended action of the rule that gives a strategy its name
RuleOfStrategy ==
  [s \in {"Cash Only (Extreme HODL)", "Cash First, Minimal Bitcoin"} |-> "HODL_BITCOIN"]
  @@ [s \in {"Balanced Withdrawal"} |-> "BALANCED"]
  @@ [s \in {"Bitcoin Only (Take Profits)", "Mostly Bitcoin (80%+)"} |-> "SPEND_BITCOIN"]

\* C23: every floor-phase withdrawal row is decided by the cash-first
\* HODL_BITCOIN rule (bitcoin is sold only when the remaining cash is below
\* the withdrawal), every recovery-phase row by the BALANCED rule and every
\* bull or peak row by the SPEND_BITCOIN rule (cash is used only when the
\* remaining bitcoin value is below the withdrawal); the bubble bands
\* (ratio > 2.5) are never reached from the simulation.
C23_PhaseDecidesRule ==
  Simulating =>
    \A i \in withdrawalRows :
      /\ simulation[i].withdrawalSource.strategy \in DOMAIN RuleOfStrategy
      /\ Le(simulation[i].priceToFairRatio, Q(25, 10))
      /\ PhaseAt(RowOffset(i)) = "floor" =>
           /\ RuleOfStrategy[simulation[i].withdrawalSource.strategy] = "HODL_BITCOIN"
           /\ Gt(simulation[i].bitcoinSold, N(0)) =>
                Lt(Add(simulation[i].remainingCash, simulation[i].cashUsed),
                   simulation[i].annualWithdrawal)
      /\ PhaseAt(RowOffset(i)) = "recovery" =>
           RuleOfStrategy[simulation[i].withdrawalSource.strategy] = "BALANCED"
      /\ PhaseAt(RowOffset(i)) \in {"bull", "peak"} =>
           /\ RuleOfStrategy[simulation[i].withdrawalSource.strategy] = "SPEND_BITCOIN"
           /\ Gt(simulation[i].cashUsed, N(0)) =>
                Lt(Mul(Add(simulation[i].remainingBitcoin, simulation[i].bitcoinSold),
                       simulation[i].bitcoinPrice),
                   simulation[i].annualWithdrawal)

\* a ledger with a floor year that sold bitcoin, a recovery year and a bull
\* year in which the bitcoin no longer covered the withdrawal
C23_Witness ==
  /\ Simulating
  /\ \E i \in withdrawalRows :
       /\ PhaseAt(RowOffset(i)) = "floor"
       /\ simulation[i].withdrawalSource.strategy = "Cash First, Minimal Bitcoin"
       /\ Gt(simulation[i].bitcoinSold, N(0))
  /\ \E i \in withdrawalRows :
       /\ PhaseAt(RowOffset(i)) = "recovery"
       /\ simulation[i].withdrawalSource.strategy = "Balanced Withdrawal"
  /\ \E i \in withdrawalRows :
       /\ PhaseAt(RowOffset(i)) = "bull"
       /\ simulation[i].withdrawalSource.strategy = "Mostly Bitcoin (80%+)"

\* the ledger as the retirement analysis reads it
Returned == Simulating /\ pc \in {"returned", "charted"} /\ Len(simulation) > 0

\* C24: whenever the retirement analysis reports success, the ledger holds
\* all 50 withdrawal rows and none of them is tagged DEPLETED, with or
\* without accumulation rows in front.
C24_SuccessMeansFullUntaggedLedger ==
  (Returned /\ simulationSucceeds) =>
    /\ Cardinality(withdrawalRows) = 50
    /\ \A i \in withdrawalRows : ~simulation[i].withdrawalSource.depleted

\* a successful analysis of a ledger with accumulation rows in front
C24_Witness ==
  /\ Returned
  /\ simulationSucceeds
  /\ accumulationRows # {}
  /\ Len(simulation) > 50

\* the rows of the ledger are in strictly increasing calendar-year order
YearsIncrease ==
  \A i \in DOMAIN simulation :
    i > 1 => simulation[i - 1].year < simulation[i].year

\* C25: with the accumulation phase enabled the ledger is in strictly
\* increasing calendar-year order and the year of the last ACCUMULATION row
\* is the year of the first withdrawal row minus one, for every combination
\* of yearsUntilRetirement and yearsToRetirement.
C25_AccumulationEndsYearBeforeWithdrawals ==
  Simulating =>
    /\ YearsIncrease
    /\ \A i \in accumulationRows : \A j \in withdrawalRows :
         (i + 1 = j) => simulation[i].year = simulation[j].year - 1

\* calculateWithdrawal has run outside emergency mode in the overvalued band
Overvalued ==
  /\ pc = "done" /\ context # None /\ ~context.emergencyMode
  /\ Gt(Ratio, Q(12, 10)) /\ Le(Ratio, Q(25, 10))

\* 0.8 x withdrawalNeeded / price
CappedBitcoin ==
  Div(Mul(context.withdrawalNeeded, Q(8, 10)), context.currentBitcoinPrice)

\* C26: in the overvalued band (1.2 < ratio <= 2.5), if availableBitcoin x
\* price >= withdrawalNeeded then useCashAmount = 0 and useBitcoinAmount =
\* withdrawalNeeded / price; otherwise useBitcoinAmount =
\* min(availableBitcoin, 0.8 x withdrawalNeeded / price) and useCashAmount =
\* min(availableCash, withdrawalNeeded - useBitcoinAmount x price), so at
\* most 80% of the need comes from bitcoin.
C26_OvervaluedBandAmounts ==
  Overvalued =>
    IF Ge(Mul(context.availableBitcoin, context.currentBitcoinPrice), context.withdrawalNeeded)
    THEN /\ Eq(decision.useCashAmount, N(0))
         /\ Eq(decision.useBitcoinAmount,
               Div(context.withdrawalNeeded, context.currentBitcoinPrice))
    ELSE /\ Eq(decision.useBitcoinAmount, MathMin(context.availableBitcoin, CappedBitcoin))
         /\ Eq(decision.useCashAmount,
               MathMin(context.availableCash,
                       Sub(context.withdrawalNeeded,
                           Mul(decision.useBitcoinAmount, context.currentBitcoinPrice))))
         /\ Le(Mul(decision.useBitcoinAmount, context.currentBitcoinPrice),
               Mul(context.withdrawalNeeded, Q(8, 10)))

\* the bitcoin is worth between 80% and 100% of the need: the cap binds and
\* cash pays the rest
C26_Witness ==
  /\ Overvalued
  /\ Lt(Mul(context.availableBitcoin, context.currentBitcoinPrice), context.withdrawalNeeded)
  /\ Lt(CappedBitcoin, context.availableBitcoin)
  /\ Eq(decision.useBitcoinAmount, CappedBitcoin)
  /\ Gt(decision.useCashAmount, N(0))
  /\ Eq(TotalUsed, context.withdrawalNeeded)

\* calculateWithdrawal has run outside emergency mode in the undervalued
\* band on non-negative inputs with a positive need
Undervalued ==
  /\ pc = "done" /\ context # None /\ ~context.emergencyMode
  /\ Gt(Ratio, Q(5, 10)) /\ Le(Ratio, Q(8, 10))
  /\ NonNegativeInputs /\ Gt(context.withdrawalNeeded, N(0))

\* what the extreme-undervalued rule decides on the same context
CashFirst ==
  extremeUndervaluedStrategy(context.availableCash, context.availableBitcoin,
                             context.withdrawalNeeded, Ratio, context.currentBitcoinPrice)

BearPrices(year) ==
  {N(1), calculateFloorPrice(Date(year, 0)), calculateFairValue(Date(year, 0)),
   calculateUpperBound(Date(year, 0)), N(100000)}

WithHoldings(bitcoinHoldings, cashHoldings) ==
  testBearMarketSurvival(bearInput.bitcoinPrice, bearInput.year, bitcoinHoldings,
                         bearInput.annualWithdrawal, cashHoldings)

\* C29: the verdict of testBearMarketSurvival is monotone in the holdings:
\* for a fixed year and annualWithdrawal > 0, a test that passes with
\* (bitcoinHoldings, cashHoldings) passes with every pair that is at least
\* as large in both.
C29_VerdictMonotoneInHoldings ==
  (BearTested /\ Gt(bearInput.annualWithdrawal, N(0)) /\ bearResult.passes) =>
    \A b \in BearHoldingsGrid(bearInput.year, bearInput.annualWithdrawal) :
      \A c \in BearCashGrid(bearInput.annualWithdrawal) :
        (Ge(b, bearInput.bitcoinHoldings) /\ Ge(c, bearInput.cashHoldings))
          => WithHoldings(b, c).passes

\* a test that passes with exactly 20 years of runway and no cash, below
\* larger holdings of both kinds
C29_Witness ==
  /\ BearTested
  /\ Gt(bearInput.annualWithdrawal, N(0))
  /\ bearResult.passes
  /\ Eq(bearInput.bitcoinHoldings, BoundaryHoldings(bearInput.year, bearInput.annualWithdrawal))
  /\ Eq(bearInput.cashHoldings, N(0))
  /\ \E b \in BearHoldingsGrid(bearInput.year, bearInput.annualWithdrawal) :
       \E c \in BearCashGrid(bearInput.annualWithdrawal) :
         /\ Gt(b, bearInput.bitcoinHoldings) /\ Gt(c, bearInput.cashHoldings)
         /\ WithHoldings(b, c).passes

\* the bitcoin bought over all months of the savings projection
TotalAccumulated ==
  IF monthlySavingsInputs.enabled
  THEN SumRange([m \in DOMAIN savingsProjection |-> savingsProjection[m].bitcoinPurchased],
                1, Len(savingsProjection))
  ELSE N(0)

\* the bitcoin a withdrawal row started from, when the row was not clamped
BitcoinBefore(row) == Add(row.remainingBitcoin, row.bitcoinSold)

\* C30: holdings move one way within each phase of the ledger: across
\* consecutive accumulation rows remainingBitcoin never decreases and
\* remainingCash stays the starting cash; across consecutive withdrawal rows
\* remainingBitcoin and remainingCash never increase; and the withdrawal
\* phase starts from the starting bitcoin plus the total bitcoin accumulated.
\* Rows are only appended, so the newest row of every state stands for
\* every row of every ledger.
C30_HoldingsMoveOneWay ==
  (Simulating /\ pc \in {"accumulating", "withdrawing", "returned"}) =>
    /\ \A i \in accumulationRows \cap {Len(simulation)} :
         /\ Eq(simulation[i].remainingCash, retirementInputs.cashAmount)
         /\ (i - 1) \in accumulationRows =>
              Le(simulation[i - 1].remainingBitcoin, simulation[i].remainingBitcoin)
    /\ \A i \in withdrawalRows \cap {Len(simulation)} :
         IF (i - 1) \in withdrawalRows
         THEN /\ Le(simulation[i].remainingBitcoin, simulation[i - 1].remainingBitcoin)
              /\ Le(simulation[i].remainingCash, simulation[i - 1].remainingCash)
         ELSE /\ Le(simulation[i].remainingCash, retirementInputs.cashAmount)
              /\ ~simulation[i].withdrawalSource.depleted =>
                   Eq(BitcoinBefore(simulation[i]),
                      Add(retirementInputs.bitcoinAmount, TotalAccumulated))
    /\ (pc = "withdrawing" /\ withdrawalRows = {}) =>
         Eq(loop.remainingBitcoin, Add(retirementInputs.bitcoinAmount, TotalAccumulated))

\* a returned ledger of a saver who starts with bitcoin: the bitcoin grows
\* over the accumulation rows and shrinks over the withdrawal rows
C30_Witness ==
  /\ Simulating /\ pc = "returned"
  /\ Gt(retirementInputs.bitcoinAmount, N(0))
  /\ Gt(TotalAccumulated, N(0))
  /\ \E i \in accumulationRows :
       /\ (i - 1) \in accumulationRows
       /\ Lt(simulation[i - 1].remainingBitcoin, simulation[i].remainingBitcoin)
  /\ \E i \in withdrawalRows :
       /\ (i - 1) \in withdrawalRows
       /\ Lt(simulation[i].remainingBitcoin, simulation[i - 1].remainingBitcoin)
  /\ \E i \in withdrawalRows :
       /\ (i - 1) \notin withdrawalRows
       /\ Lt(simulation[i].remainingCash, retirementInputs.cashAmount)

====
